---- MODULE Spec2Model ----
(***************************************************************************)
(* forrust_fire: the mutable tree ForestFire (crates/tree/src/fire.rs),    *)
(* the immutable tree Ashes (crates/tree/src/ashes.rs) and its map-based   *)
(* serde codec (crates/tree/src/ashes/serde.rs).                           *)
(*                                                                         *)
(* Indices, ids and ranges keep the 0-based values of the Rust code; a     *)
(* Vec is a TLA+ sequence, so element i of the Vec is s[i + 1].            *)
(***************************************************************************)
EXTENDS Integers, Sequences, FiniteSets, TLC

VARIABLES
    fire,             \* ForestFire<T>: [nodes]
    phase,            \* "fire" while the builder is alive, "ashes" once an Ashes is held
    ashes,            \* the Ashes<T> held by the caller (from burn, or taken out of the storage)
    last,             \* the last call on the builder or on ashes whose outcome the caller holds
    storage,          \* AshDeserStorage<T>: [ashes, entry_stack]
    frames,           \* the visit_map activations in progress, outermost first
    pc,               \* where the decode is: "idle", "map", "ret", "done"
    ret,              \* the payload a finished child map returned, until its parent takes it
    result,           \* how the decode ended: "none", "ok", an error kind, or "panic"
    src,              \* where the decoder's input comes from: "replay" (input) or "free"
    input,            \* the tokens of a serialized tree not yet read
    wire,             \* the map entries and map ends the decoder has read so far
    overflow_checks,  \* the build: TRUE panics on integer overflow, FALSE wraps
    seeded,           \* what the storage held when the decode in progress was seeded
    sub,              \* ForestFireSubscriber: the per-thread Local stacks, the tree mutex
    current,          \* per thread, the spans entered and not yet exited, oldest first
    tlast             \* the last call made on the subscriber

vars == <<fire, phase, ashes, last, storage, frames, pc, ret, result, src, input, wire,
          overflow_checks, seeded, sub, current, tlast>>

\* the state of the tracing subscriber around the builder
tracing_vars == <<sub, current, tlast>>

-----------------------------------------------------------------------------
(* Bounds of the model *)

\* width of usize in bits
WordBits == 4
\* most nodes a builder gets
MaxNodes == 3
\* payloads are 0..MaxPayload
MaxPayload == 1
\* most map entries a free input stream holds
MaxEntries == 5
\* the small child keys of a free input stream are 0..MaxKey
MaxKey == 1
\* most spans a thread has on its span stack
MaxDepth == 2

-----------------------------------------------------------------------------
(* internal.rs: BranchIdImpl *)

UsizeMax == 2 ^ WordBits - 1
IsizeMax == UsizeMax \div 2

ROOT == UsizeMax
UNINIT == UsizeMax - 1

is_root(id) == id = UsizeMax

\* Option<T>: None is <<>>, Some(x) is <<x>>
None == <<>>
Some(x) == <<x>>
is_some(o) == o # <<>>
unwrap(o) == o[1]

\* Range<usize>
Rng(s, e) == [start |-> s, end |-> e]
\* the indices a Range iterates over (empty when start >= end)
RngSet(r) == {i \in 0..UsizeMax : r.start <= i /\ i < r.end}

Payloads == 0..MaxPayload

-----------------------------------------------------------------------------
(* fire.rs: ForestFire *)

FireNode(parent, payload) == [parent |-> parent, payload |-> payload]

FireNew == [nodes |-> <<>>]

node_count(f) == Len(f.nodes)

\* mutant: accepts the id the next insert would receive
exists_off_by_one(f, branch) == is_root(branch) \/ branch <= Len(f.nodes)

exists(f, branch) ==
    IF is_root(branch) THEN TRUE ELSE branch < Len(f.nodes)

\* mutant: ids are handed out from 1
next_id_from_one(f) == Len(f.nodes) + 1

next_id(f) == Len(f.nodes)

\* outcome of a call: the builder afterwards, the value returned, whether it panicked
Outcome(f, value, panicked) == [fire |-> f, ret |-> value, panicked |-> panicked]

\* mutant: the parent is not checked
branch_unchecked(f, parent, payload) ==
    Outcome([nodes |-> Append(f.nodes, FireNode(parent, payload))], Some(Len(f.nodes)), FALSE)

\* mutant: the new node is put in front of the others
branch_push_front(f, parent, payload) ==
    IF ~exists(f, parent)
    THEN Outcome(f, None, TRUE)
    ELSE LET id == Len(f.nodes)
         IN Outcome([nodes |-> <<FireNode(parent, payload)>> \o f.nodes], Some(id), FALSE)

\* fire.rs 169-196: ForestFire::branch
branch(f, parent, payload) ==
    IF ~exists(f, parent)
    THEN Outcome(f, None, TRUE)
    ELSE LET id == Len(f.nodes)
         IN Outcome([nodes |-> Append(f.nodes, FireNode(parent, payload))], Some(id), FALSE)

\* fire_parent without the bounds check: an id that does not exist has no parent
fire_parent_unchecked(f, of) ==
    IF is_root(of) \/ of >= Len(f.nodes) THEN Outcome(f, None, FALSE)
    ELSE Outcome(f, Some(f.nodes[of + 1].parent), FALSE)

\* fire.rs 85-94: ForestFire::parent
fire_parent(f, of) ==
    IF is_root(of) THEN Outcome(f, None, FALSE)
    ELSE IF of < Len(f.nodes) THEN Outcome(f, Some(f.nodes[of + 1].parent), FALSE)
    ELSE Outcome(f, None, TRUE)

\* fire.rs 103-115: ForestFire::get_payload
get_payload(f, of) ==
    IF is_root(of) THEN Outcome(f, None, FALSE)
    ELSE IF of < Len(f.nodes) THEN Outcome(f, Some(f.nodes[of + 1].payload), FALSE)
    ELSE Outcome(f, None, TRUE)

\* mutant: the write goes to the node before the addressed one as well
set_payload_spilling(nodes, of, value) ==
    [j \in 1..Len(nodes) |->
        IF j = of + 1 \/ j = of THEN [nodes[j] EXCEPT !.payload = value] ELSE nodes[j]]

\* *r = value for the reference r to nodes[of].payload that get_payload_mut (fire.rs
\* 129-135) or BranchMut::payload (ashes.rs 137-142) returned
set_payload(nodes, of, value) ==
    [nodes EXCEPT ![of + 1].payload = value]

\* fire.rs 125-137: ForestFire::get_payload_mut, and value written through the
\* reference it returns; ret is what the reference pointed at
get_payload_mut(f, of, value) ==
    IF is_root(of) THEN Outcome(f, None, FALSE)
    ELSE IF of < Len(f.nodes)
         THEN Outcome([f EXCEPT !.nodes = set_payload(f.nodes, of, value)],
                      Some(f.nodes[of + 1].payload), FALSE)
         ELSE Outcome(f, None, TRUE)

\* fire.rs 145-147: ForestFire::payload; root_panic (fire.rs 48-50) when get_payload
\* returns None
fire_payload(f, of) ==
    LET o == get_payload(f, of)
    IN IF ~o.panicked /\ ~is_some(o.ret) THEN Outcome(f, None, TRUE) ELSE o

\* fire.rs 155-157: ForestFire::payload_mut, and value written through the reference
payload_mut(f, of, value) ==
    LET o == get_payload_mut(f, of, value)
    IN IF ~o.panicked /\ ~is_some(o.ret) THEN Outcome(f, None, TRUE) ELSE o

-----------------------------------------------------------------------------
(* ashes.rs: Node, Ashes; fire.rs: ForestFire::burn *)

AshNode(parent, payload, children, old_idx) ==
    [parent |-> parent, payload |-> payload, children |-> children, old_idx |-> old_idx]

AshesNew == [nodes |-> <<>>, root_children |-> Rng(0, 0)]

\* position (from 1) that element i takes when s is sorted by keys, equal keys keeping
\* their order
StableRank(keys, i) ==
    Cardinality({j \in DOMAIN keys : keys[j] < keys[i] \/ (keys[j] = keys[i] /\ j < i)}) + 1

\* mutant: equal keys come out in reverse order
sort_by_key_reversing_ties(s, keys) ==
    LET rank(i) == Cardinality({j \in DOMAIN keys :
                        keys[j] < keys[i] \/ (keys[j] = keys[i] /\ j > i)}) + 1
    IN [r \in 1..Len(s) |-> s[CHOOSE i \in 1..Len(s) : rank(i) = r]]

\* mutant: ROOT is taken as the least key
sort_by_key_root_first(s, keys) ==
    LET k == [i \in DOMAIN keys |-> (keys[i] + 1) % (UsizeMax + 1)]
    IN [r \in 1..Len(s) |-> s[CHOOSE i \in 1..Len(s) : StableRank(k, i) = r]]

\* slice::sort_by_key (stable); keys[i] is the key of s[i]
sort_by_key(s, keys) ==
    [r \in 1..Len(s) |-> s[CHOOSE i \in 1..Len(s) : StableRank(keys, i) = r]]

\* slice::sort_unstable_by_key; burn calls it with pairwise distinct keys, for which
\* every sort gives the one sorted order
sort_unstable_by_key(s, keys) ==
    [r \in 1..Len(s) |-> s[CHOOSE i \in 1..Len(s) : StableRank(keys, i) = r]]

\* fire.rs 228-239: the builder's nodes as Ashes nodes, parents still in old indexing
burn_collect(f) ==
    [i \in 1..Len(f.nodes) |->
        AshNode(f.nodes[i].parent, f.nodes[i].payload, Rng(0, 0), i - 1)]

\* fire.rs 241
burn_sorted(f) ==
    LET nodes == burn_collect(f)
    IN sort_by_key(nodes, [i \in 1..Len(nodes) |-> nodes[i].parent])

\* mutant: the table is left as the identity, as if sorting moved nothing
old2new_identity(nodes) == [i \in 1..Len(nodes) |-> i - 1]

\* mutant: the table is the sort permutation itself, not its inverse
old2new_not_inverted(nodes) == [i \in 1..Len(nodes) |-> nodes[i].old_idx]

\* fire.rs 242-243: old2new[k] is the new position of the node that had id k
old2new_table(nodes) ==
    sort_unstable_by_key([i \in 1..Len(nodes) |-> i - 1],
                         [i \in 1..Len(nodes) |-> nodes[i].old_idx])

\* fire.rs 245-252
burn_remap(nodes) ==
    LET old2new == old2new_table(nodes)
    IN [i \in 1..Len(nodes) |->
          [nodes[i] EXCEPT !.parent = IF is_root(@) THEN ROOT ELSE old2new[@ + 1]]]

\* fire.rs 254-256
ScanInit(nodes) ==
    [nodes |-> nodes, last_parent |-> ROOT, child_lo |-> 0,
     root_children |-> Rng(UsizeMax, UsizeMax)]

\* mutant: every group is recorded as the root's
flush_parent_always_root(st, end) ==
    [st EXCEPT !.root_children = Rng(st.child_lo, end)]

\* fire.rs 258-267
flush_parent(st, end) ==
    IF is_root(st.last_parent)
    THEN [st EXCEPT !.root_children = Rng(st.child_lo, end)]
    ELSE [st EXCEPT !.nodes[st.last_parent + 1].children = Rng(st.child_lo, end)]

\* fire.rs 269-280
RECURSIVE burn_scan(_, _)
burn_scan(st, i) ==
    IF i >= Len(st.nodes) THEN st
    ELSE LET parent == st.nodes[i + 1].parent
             st1 == IF st.last_parent # parent
                    THEN LET flushed == IF st.child_lo # i THEN flush_parent(st, i) ELSE st
                         IN [flushed EXCEPT !.last_parent = parent, !.child_lo = i]
                    ELSE st
         IN burn_scan(st1, i + 1)

\* mutant: the flush after the loop is left out
burn_final_flush_skipped(f) ==
    LET nodes == burn_remap(burn_sorted(f))
        scanned == burn_scan(ScanInit(nodes), 0)
    IN [nodes |-> scanned.nodes, root_children |-> scanned.root_children]

\* fire.rs 222-289
burn(f) ==
    LET nodes == burn_remap(burn_sorted(f))
        scanned == burn_scan(ScanInit(nodes), 0)
        st == flush_parent(scanned, Len(nodes))
    IN [nodes |-> st.nodes, root_children |-> st.root_children]

-----------------------------------------------------------------------------
(* ashes.rs: read access used by the codec *)

\* ashes.rs 74-80, 165-167: the children range of the root (ROOT) or of a node
children(a, b) == IF is_root(b) THEN a.root_children ELSE a.nodes[b + 1].children

\* ashes.rs 93-96: end - start in usize; where it underflows, a build with overflow
\* checks panics and one without wraps
children_len(r) == (r.end - r.start) % (UsizeMax + 1)
children_len_panics(r, checks) == checks /\ r.end < r.start

\* ashes.rs 83-85
n_children(a, b) == children_len(children(a, b))

\* ashes.rs 57-62: None for the root
payload_of(a, b) == IF is_root(b) THEN None ELSE Some(a.nodes[b + 1].payload)

-----------------------------------------------------------------------------
(* ashes.rs: the accessors of Ashes, BranchRef and BranchMut *)

\* mutant: ROOT is looked up in the node array like any id
ashes_exists_root_looked_up(a, b) == b < Len(a.nodes)

\* ashes.rs 220-226: Ashes::exists
ashes_exists(a, b) ==
    IF is_root(b) THEN TRUE ELSE b < Len(a.nodes)

\* outcome of a call on an Ashes: the Ashes afterwards, the value returned, or a panic
AshOutcome(a, value, panicked) == [ashes |-> a, ret |-> value, panicked |-> panicked]

\* internal.rs 20-23: new_branch panics on usize::MAX where debug assertions are on
new_branch_panics(value, checks) == checks /\ value = UsizeMax

\* mutant: the end of the range is taken for a child
nth_child_end_inclusive(range, idx, checks) ==
    LET target == range.start + idx
    IN IF target > UsizeMax THEN [ret |-> None, panicked |-> TRUE]
       ELSE IF new_branch_panics(target, checks) THEN [ret |-> None, panicked |-> TRUE]
       ELSE IF ~(range.start <= target /\ target <= range.end)
            THEN [ret |-> None, panicked |-> TRUE]
       ELSE [ret |-> Some(target), panicked |-> FALSE]

\* ashes.rs 98-114: nth_child; checked_add, new_branch, Range::contains
nth_child(range, idx, checks) ==
    LET target == range.start + idx
    IN IF target > UsizeMax THEN [ret |-> None, panicked |-> TRUE]
       ELSE IF new_branch_panics(target, checks) THEN [ret |-> None, panicked |-> TRUE]
       ELSE IF ~(range.start <= target /\ target < range.end)
            THEN [ret |-> None, panicked |-> TRUE]
       ELSE [ret |-> Some(target), panicked |-> FALSE]

\* ashes.rs 242-253, 88-90: ashes.branch(b).child(n); branch panics when b does not exist
branch_child(a, b, n, checks) ==
    IF ~ashes_exists(a, b) THEN AshOutcome(a, None, TRUE)
    ELSE LET o == nth_child(children(a, b), n, checks)
         IN AshOutcome(a, o.ret, o.panicked)

\* ashes.rs 269-280, 137-142: value written through ashes.branch_mut(b).payload(), which
\* is None for the root; ret is what the reference pointed at
branch_mut_payload(a, b, value) ==
    IF is_root(b) THEN AshOutcome(a, None, FALSE)
    ELSE IF b < Len(a.nodes)
         THEN AshOutcome([a EXCEPT !.nodes = set_payload(a.nodes, b, value)],
                         Some(a.nodes[b + 1].payload), FALSE)
         ELSE AshOutcome(a, None, TRUE)

\* usize::saturating_add
saturating_add(x, y) == IF x + y > UsizeMax THEN UsizeMax ELSE x + y

\* one call of the render function: the branch it is called for, the payload and the
\* indent it is given
Render(b, p, indent) == [branch |-> b, payload |-> p, indent |-> indent]

\* mutant: the children are printed before the node itself
RECURSIVE print_children_first(_, _, _, _)
print_children_first(a, b, indent, k) ==
    IF k = 0
    THEN print_children_first(a, b, indent, 1) \o <<Render(b, payload_of(a, b), indent)>>
    ELSE IF k > n_children(a, b) THEN <<>>
    ELSE print_children_first(a, children(a, b).start + k - 1, saturating_add(indent, 1), 0)
         \o print_children_first(a, b, indent, k + 1)

\* ashes.rs 399-413: fn print, the render calls it makes for branch b in order (the
\* render function returns Ok): with k = 0 the call for b itself and then its children,
\* with k > 0 the calls for the children of b from the k-th on
RECURSIVE print(_, _, _, _)
print(a, b, indent, k) ==
    IF k = 0
    THEN <<Render(b, payload_of(a, b), indent)>> \o print(a, b, indent, 1)
    ELSE IF k > n_children(a, b) THEN <<>>
    ELSE print(a, children(a, b).start + k - 1, saturating_add(indent, 1), 0)
         \o print(a, b, indent, k + 1)

\* ashes.rs 304-312, 396-416: Display::fmt of ashes.print_tree(print_value)
print_tree(a) == print(a, ROOT, 0, 0)

-----------------------------------------------------------------------------
(* serde.rs: map keys. A key is a string, here the sequence of its characters *)

Digits == <<"0", "1", "2", "3", "4", "5", "6", "7", "8", "9">>
DigitValue(c) == CHOOSE d \in 0..9 : Digits[d + 1] = c
IsDigit(c) == \E d \in 0..9 : Digits[d + 1] = c

\* internal.rs 123: the decimal digits of usize::MAX
RECURSIVE NumDigits(_)
NumDigits(n) == IF n < 10 THEN 1 ELSE 1 + NumDigits(n \div 10)
USIZE_STR_MAX_CHARS == NumDigits(UsizeMax)

\* mutant: child keys are written counting from 1
FormatUsize_one_based(n) == <<Digits[((n + 1) % 10) + 1]>>

\* serde.rs 57-59: write!(arr, "{i}"), the decimal rendering of i
RECURSIVE FormatUsize(_)
FormatUsize(n) ==
    IF n < 10 THEN <<Digits[n + 1]>>
    ELSE FormatUsize(n \div 10) \o <<Digits[(n % 10) + 1]>>

\* str::parse::<usize> on the digits: the value, or -1 on a non-digit or on overflow
RECURSIVE ParseDigits(_, _)
ParseDigits(str, acc) ==
    IF str = <<>> THEN acc
    ELSE IF ~IsDigit(Head(str)) THEN -1
    ELSE LET v == acc * 10 + DigitValue(Head(str))
         IN IF v > UsizeMax THEN -1 ELSE ParseDigits(Tail(str), v)

\* serde.rs 374: str.parse::<usize>(): an optional "+" and at least one digit
ParseUsize(str) ==
    LET body == IF str # <<>> /\ Head(str) = "+" THEN Tail(str) ELSE str
        v == IF body = <<>> THEN -1 ELSE ParseDigits(body, 0)
    IN IF v < 0 THEN None ELSE Some(v)

KeyV == <<"v">>

\* serde.rs 368-379: KeyVisitor::visit_str
visit_str(str) ==
    IF str = KeyV THEN [kind |-> "payload", idx |-> 0]
    ELSE IF is_some(ParseUsize(str))
         THEN [kind |-> "child", idx |-> unwrap(ParseUsize(str))]
         ELSE [kind |-> "invalid", idx |-> 0]

-----------------------------------------------------------------------------
(* The serialized form: a stream of map entries and map ends.                *)
(* An entry is a key with the shape of its value: a map that opens (with its *)
(* declared length n) or a scalar p.                                         *)

EntryTok(k, isMap, p, n) == [t |-> "entry", k |-> k, map |-> isMap, p |-> p, n |-> n]
EndTok == [t |-> "end", k |-> <<>>, map |-> FALSE, p |-> 0, n |-> 0]

\* serde.rs 46-51: the length declared to serialize_map
ser_len(a, b) ==
    n_children(a, b) + (IF is_some(payload_of(a, b)) THEN 1 ELSE 0)

\* mutant: the payload entry is left out
ser_payload_omitted(a, b) == <<>>

\* serde.rs 52-55: the "v" entry; the provider is the identity (serde.rs 81)
ser_payload(a, b) ==
    IF is_some(payload_of(a, b))
    THEN <<EntryTok(KeyV, FALSE, unwrap(payload_of(a, b)), 0)>>
    ELSE <<>>

\* serde.rs 41-71: the entries of the map written for branch b, children from position i on
RECURSIVE ser_children(_, _, _)
ser_children(a, b, i) ==
    IF i >= n_children(a, b) THEN <<>>
    ELSE LET child == children(a, b).start + i
         IN <<EntryTok(FormatUsize(i), TRUE, 0, ser_len(a, child))>>
            \o ser_payload(a, child) \o ser_children(a, child, 0) \o <<EndTok>>
            \o ser_children(a, b, i + 1)

\* serde.rs 73-85: Ashes::serialize, the root's map as the top-level value
serialize(a) ==
    <<EntryTok(<<>>, TRUE, 0, ser_len(a, ROOT))>>
    \o ser_payload(a, ROOT) \o ser_children(a, ROOT, 0) \o <<EndTok>>

-----------------------------------------------------------------------------
(* serde.rs: AshDeserStorage and DeserSeed::visit_map *)

\* serde.rs 87-91
Entry(payload, kids) == [payload |-> payload, children |-> kids]

\* serde.rs 168-173
StorageNew == [ashes |-> AshesNew, entry_stack |-> <<>>]

\* ashes.rs 207-211
ashes_clear(a) == [a EXCEPT !.root_children = Rng(0, 0), !.nodes = <<>>]

\* what a storage holds when a decode is seeded on it: a snapshot a former decode left
\* in its ashes field, pending entries a failed decode left on its stack
NotSeeded == [used |-> FALSE, ashes |-> FALSE, stack |-> FALSE]
Seeded(st) == [used |-> TRUE, ashes |-> st.ashes.nodes # <<>>, stack |-> st.entry_stack # <<>>]

\* seed_with that clears the snapshot but not the pending entries
seed_clear_keeps_stack(st) == [st EXCEPT !.ashes = ashes_clear(@)]

\* serde.rs 191-192
seed_clear(st) == [ashes |-> ashes_clear(st.ashes), entry_stack |-> <<>>]

\* one activation of visit_map: its locals start and payload, whether it decodes the
\* root (Ty), and, while a child value is being decoded, the child's key i and sub_start
Frame(start, isRoot) ==
    [start |-> start, payload |-> None, root |-> isRoot, i |-> 0, sub_start |-> 0]

\* usize addition: the sum, and whether it overflowed
usize_add(a, b) == [v |-> (a + b) % (UsizeMax + 1), overflow |-> a + b > UsizeMax]

\* mutant: the children are left with the parent they were written with
set_parent_skipped(nodes, kids, idx) == nodes

\* serde.rs 425-427, 293-295: nodes[child].parent = idx for child in kids
set_parent(nodes, kids, idx) ==
    [j \in 1..Len(nodes) |->
        IF (j - 1) \in RngSet(kids) THEN [nodes[j] EXCEPT !.parent = idx] ELSE nodes[j]]

\* mutant: the new node is put in front of the array
RECURSIVE push_entries_in_front(_, _, _, _)
push_entries_in_front(nodes, ents, k, parent) ==
    IF k > Len(ents) THEN [nodes |-> nodes, panicked |-> FALSE]
    ELSE IF ~is_some(ents[k]) THEN [nodes |-> nodes, panicked |-> TRUE]
    ELSE LET e == unwrap(ents[k])
             idx == Len(nodes)
         IN IF \E c \in RngSet(e.children) : c >= Len(nodes)
            THEN [nodes |-> nodes, panicked |-> TRUE]
            ELSE push_entries_in_front(
                    <<AshNode(parent, e.payload, e.children, UsizeMax)>>
                        \o set_parent(nodes, e.children, idx),
                    ents, k + 1, parent)

\* serde.rs 415-429 and 289-303: the drained entries, in order, become nodes with the
\* given parent; panics on an empty slot or on a child index outside nodes
RECURSIVE push_entries(_, _, _, _)
push_entries(nodes, ents, k, parent) ==
    IF k > Len(ents) THEN [nodes |-> nodes, panicked |-> FALSE]
    ELSE IF ~is_some(ents[k]) THEN [nodes |-> nodes, panicked |-> TRUE]
    ELSE LET e == unwrap(ents[k])
             idx == Len(nodes)
         IN IF \E c \in RngSet(e.children) : c >= Len(nodes)
            THEN [nodes |-> nodes, panicked |-> TRUE]
            ELSE push_entries(
                    Append(set_parent(nodes, e.children, idx),
                           AshNode(parent, e.payload, e.children, UsizeMax)),
                    ents, k + 1, parent)

\* Vec::resize_with(new_len, || None): grows with None, or truncates
resize_with(stack, new_len) ==
    IF new_len <= Len(stack) THEN SubSeq(stack, 1, new_len)
    ELSE stack \o [j \in 1..(new_len - Len(stack)) |-> None]

\* how a step of the decode ends: it goes on ("ok"), fails with an error kind, or panics
Step(st, how) == [storage |-> st, how |-> how]

\* serde.rs 436-443
place_entry(st, pos, entry) ==
    IF pos >= Len(st.entry_stack) THEN Step(st, "panic")
    ELSE IF is_some(st.entry_stack[pos + 1]) THEN Step(st, "duplicate_field")
    ELSE Step([st EXCEPT !.entry_stack[pos + 1] = Some(entry)], "ok")

\* mutant: the entry is pushed in arrival order, whatever its key says
entry_pos_arrival_order(st, start, i) == [v |-> Len(st.entry_stack), overflow |-> FALSE]

\* serde.rs 432
entry_pos(st, start, i) == usize_add(start, i)

\* serde.rs 413-443: the Key::Child arm after the child map has returned child_payload
collect_child(st, checks, start, sub_start, i, child_payload) ==
    IF sub_start > Len(st.entry_stack) THEN Step(st, "panic")
    ELSE
    LET sub_node_start == Len(st.ashes.nodes)
        drained == SubSeq(st.entry_stack, sub_start + 1, Len(st.entry_stack))
        pushed == push_entries(st.ashes.nodes, drained, 1, UNINIT)
        st1 == [ashes |-> [st.ashes EXCEPT !.nodes = pushed.nodes],
                entry_stack |-> SubSeq(st.entry_stack, 1, sub_start)]
        sub_node_end == Len(pushed.nodes)
        pos == entry_pos(st1, start, i)
        new_len == usize_add(pos.v, 1)
        grow == Len(st1.entry_stack) <= pos.v
        st2 == IF grow THEN [st1 EXCEPT !.entry_stack = resize_with(@, new_len.v)] ELSE st1
    IN IF pushed.panicked THEN Step(st1, "panic")
       ELSE IF pos.overflow /\ checks THEN Step(st1, "panic")
       ELSE IF grow /\ new_len.overflow /\ checks THEN Step(st1, "panic")
       ELSE IF grow /\ new_len.v > IsizeMax THEN Step(st1, "panic")
       ELSE place_entry(st2, pos.v, Entry(child_payload, Rng(sub_node_start, sub_node_end)))

\* serde.rs 448-452: some slot of this map is still empty
missing_child(st, start) ==
    \E j \in (start + 1)..Len(st.entry_stack) : ~is_some(st.entry_stack[j])

\* mutant: the root may carry a payload
make_out_root_lenient(isRoot, payload) ==
    IF isRoot THEN "ok" ELSE IF is_some(payload) THEN "ok" ELSE "missing_field"

\* serde.rs 280-285 (DeserRoot) and 312-317 (DeserChild)
make_out(isRoot, payload) ==
    IF isRoot
    THEN IF is_some(payload) THEN "payload_in_root" ELSE "ok"
    ELSE IF is_some(payload) THEN "ok" ELSE "missing_field"

\* serde.rs 287-306: DeserRoot::finish
finish_root(st) ==
    LET start == Len(st.ashes.nodes)
        pushed == push_entries(st.ashes.nodes, st.entry_stack, 1, ROOT)
        end == Len(pushed.nodes)
    IN IF pushed.panicked THEN Step(st, "panic")
       ELSE Step([ashes |-> [nodes |-> pushed.nodes, root_children |-> Rng(start, end)],
                  entry_stack |-> <<>>], "ok")

\* serde.rs 448-456: the end of visit_map, once next_key has returned None
map_end(st, frame) ==
    IF frame.start > Len(st.entry_stack) THEN Step(st, "panic")
    ELSE IF missing_child(st, frame.start) THEN Step(st, "missing_field")
    ELSE IF make_out(frame.root, frame.payload) # "ok"
         THEN Step(st, make_out(frame.root, frame.payload))
    ELSE IF frame.root THEN finish_root(st)
    ELSE Step(st, "ok")

-----------------------------------------------------------------------------
(* tracing/src/lib.rs: ForestFireSubscriber *)

\* the threads that report to the subscriber
Threads == {"t1", "t2"}
NoThread == "none"

\* lib.rs 303-328, 350-379: the locals of a call of new_span or event: how far it is
\* (pc), parent and id as it has read them, and the place of the node it has inserted
NoEmit == [pc |-> "idle", op |-> "none", parent |-> ROOT, id |-> 0, node |-> 0]

\* mutant: the tree mutex lets a thread in while another holds it
inner_free_always(st) == TRUE

\* lib.rs 247-249: self.inner() returns once no thread holds the tree mutex
inner_free(st) == st.inner = NoThread

\* lib.rs 210-221: ForestFireSubscriber::new with an empty forest; the provider's
\* should_span_enter and should_span_exit (lib.rs 104-106, 125-127); every thread's Local
\* starts with an empty stack (lib.rs 177-184); inner is the thread that holds the tree
\* mutex, blocked the threads that wait on a mutex forever; call is where each thread
\* is inside new_span or event
SubscriberNew(span_enter, span_exit) ==
    [stack |-> [t \in Threads |-> <<>>],
     inner |-> NoThread,
     blocked |-> {},
     call |-> [t \in Threads |-> NoEmit],
     should_span_enter |-> span_enter,
     should_span_exit |-> span_exit]

TraceCall(op, thread, span, value, panicked) ==
    [op |-> op, thread |-> thread, span |-> span, ret |-> value, panicked |-> panicked]

NoTraceCall == TraceCall("none", NoThread, 0, None, FALSE)

\* span ids are u64; usize is as wide on the targets modelled
U64Max == UsizeMax

\* mutant: the span id of a branch wraps instead of panicking
br2sp_wrapping(b) == [ret |-> (b + 1) % (U64Max + 1), panicked |-> FALSE]

\* lib.rs 258-278: br2sp, the span id of a branch: its value plus one, a panic when
\* that does not fit
br2sp(b) == [ret |-> IF b + 1 > U64Max THEN 0 ELSE b + 1, panicked |-> b + 1 > U64Max]

\* lib.rs 280-285: sp2br, the branch id of a span (a span id is never zero)
sp2br(s) == s - 1

\* lib.rs 306, 363: local.stack.last().copied().unwrap_or(ROOT)
stack_last(st) == IF st = <<>> THEN ROOT ELSE st[Len(st)]

\* mutant: exit removes the span it exits and nothing else
RECURSIVE pop_only_span(_, _)
pop_only_span(st, br) ==
    IF st = <<>> THEN <<>>
    ELSE IF st[Len(st)] = br THEN SubSeq(st, 1, Len(st) - 1)
    ELSE Append(pop_only_span(SubSeq(st, 1, Len(st) - 1), br), st[Len(st)])

\* lib.rs 397-401: the loop of exit pops until it has popped br or the stack is empty
RECURSIVE pop_until(_, _)
pop_until(st, br) ==
    IF st = <<>> THEN <<>>
    ELSE IF st[Len(st)] = br THEN SubSeq(st, 1, Len(st) - 1)
    ELSE pop_until(SubSeq(st, 1, Len(st) - 1), br)

\* lib.rs 287-294: ensure_normal panics for a span of no node and for the root
ensure_normal_panics(f, id) == ~exists(f, id) \/ is_root(id)

\* the spans a thread is inside of, in the order it entered them: what is left of cur
\* when the span br is exited (its latest entry goes, the others stay)
RECURSIVE exited(_, _)
exited(cur, br) ==
    IF cur = <<>> THEN <<>>
    ELSE IF cur[Len(cur)] = br THEN SubSeq(cur, 1, Len(cur) - 1)
    ELSE Append(exited(SubSeq(cur, 1, Len(cur) - 1), br), cur[Len(cur)])

\* make_event (lib.rs 308-316, 354-362): the payload of a node says whether it is a span
SpanPayload == 1
EventPayload == 0

\* the span ids new_span has returned so far
IssuedSpans(f) == {br2sp(i - 1).ret : i \in {j \in 1..Len(f.nodes) : f.nodes[j].payload = SpanPayload}}

-----------------------------------------------------------------------------
(* The state machine *)

Call(op, parent, payload, value, panicked) ==
    [op |-> op, parent |-> parent, payload |-> payload, ret |-> value, panicked |-> panicked]

NoCall == Call("none", ROOT, 0, None, FALSE)

Init ==
    /\ fire = FireNew
    /\ phase = "fire"
    /\ ashes = AshesNew
    /\ last = NoCall
    /\ storage = StorageNew
    /\ frames = <<>>
    /\ pc = "idle"
    /\ ret = 0
    /\ result = "none"
    /\ src = "free"
    /\ input = <<>>
    /\ wire = <<>>
    /\ overflow_checks \in BOOLEAN
    /\ seeded = NotSeeded
    /\ sub = SubscriberNew(FALSE, FALSE)
    /\ current = [t \in Threads |-> <<>>]
    /\ tlast = NoTraceCall

decoder_vars == <<storage, frames, pc, ret, result, src, input, wire, seeded>>

\* the accessors: a caller looks at the outcome of such a call and goes on
AccessOps ==
    {"parent", "get_payload", "payload", "get_payload_mut", "payload_mut", "branch_mut",
     "child", "print_tree"}

\* no accessor's outcome is waiting to be looked at
CallReturned == last.op \notin AccessOps

\* the ids a caller may pass as a parent: ids of nodes, ids of no node, ROOT and UNINIT
ParentArgs == 0..MaxNodes \cup {ROOT, UNINIT}

\* fire.rs 169-196: ForestFire::branch
BranchCall ==
    /\ phase = "fire" /\ pc = "idle" /\ CallReturned
    /\ Len(fire.nodes) < MaxNodes
    /\ \E parent \in ParentArgs, payload \in Payloads :
          LET o == branch(fire, parent, payload)
          IN /\ fire' = o.fire
             /\ last' = Call("branch", parent, payload, o.ret, o.panicked)
    /\ UNCHANGED <<phase, ashes, overflow_checks>>
    /\ UNCHANGED decoder_vars
    /\ UNCHANGED tracing_vars

\* fire.rs 85-115, 145-147: one of the reading accessors of the builder is called; the
\* parent field of the call record holds the id asked about
FireReadCall ==
    /\ phase = "fire" /\ pc = "idle" /\ CallReturned
    /\ \E of \in ParentArgs :
          \/ last' = Call("parent", of, 0, fire_parent(fire, of).ret,
                          fire_parent(fire, of).panicked)
          \/ last' = Call("get_payload", of, 0, get_payload(fire, of).ret,
                          get_payload(fire, of).panicked)
          \/ last' = Call("payload", of, 0, fire_payload(fire, of).ret,
                          fire_payload(fire, of).panicked)
    /\ UNCHANGED <<fire, phase, ashes, overflow_checks>>
    /\ UNCHANGED decoder_vars
    /\ UNCHANGED tracing_vars

\* fire.rs 125-137: ForestFire::get_payload_mut and a write through its reference
GetPayloadMutCall ==
    /\ phase = "fire" /\ pc = "idle" /\ CallReturned
    /\ \E of \in ParentArgs, value \in Payloads :
          LET o == get_payload_mut(fire, of, value)
          IN /\ fire' = o.fire
             /\ last' = Call("get_payload_mut", of, value, o.ret, o.panicked)
    /\ UNCHANGED <<phase, ashes, overflow_checks>>
    /\ UNCHANGED decoder_vars
    /\ UNCHANGED tracing_vars

\* fire.rs 155-157: ForestFire::payload_mut and a write through its reference
PayloadMutCall ==
    /\ phase = "fire" /\ pc = "idle" /\ CallReturned
    /\ \E of \in ParentArgs, value \in Payloads :
          LET o == payload_mut(fire, of, value)
          IN /\ fire' = o.fire
             /\ last' = Call("payload_mut", of, value, o.ret, o.panicked)
    /\ UNCHANGED <<phase, ashes, overflow_checks>>
    /\ UNCHANGED decoder_vars
    /\ UNCHANGED tracing_vars

\* the caller's Ashes is at rest: nothing of it is being serialized or decoded back
AshesAtRest == phase = "ashes" /\ pc = "idle" /\ input = <<>> /\ CallReturned

\* the child numbers a caller asks for: small ones and the largest usize values
ChildArgs == (0..MaxNodes) \cup ((UsizeMax - MaxNodes)..UsizeMax)

\* ashes.rs 208-211: Ashes::clear
AshesClearCall ==
    /\ AshesAtRest
    /\ ashes' = ashes_clear(ashes)
    /\ last' = Call("clear", ROOT, 0, None, FALSE)
    /\ UNCHANGED <<fire, phase, overflow_checks>>
    /\ UNCHANGED decoder_vars
    /\ UNCHANGED tracing_vars

\* ashes.rs 269-280, 137-142: a write through ashes.branch_mut(b).payload()
BranchMutPayloadCall ==
    /\ AshesAtRest
    /\ \E b \in ParentArgs, value \in Payloads :
          LET o == branch_mut_payload(ashes, b, value)
          IN /\ ashes' = o.ashes
             /\ last' = Call("branch_mut", b, value, o.ret, o.panicked)
    /\ UNCHANGED <<fire, phase, overflow_checks>>
    /\ UNCHANGED decoder_vars
    /\ UNCHANGED tracing_vars

\* ashes.rs 88-90: ashes.branch(b).child(n); the payload field of the call record holds n
ChildCall ==
    /\ AshesAtRest
    /\ \E b \in ParentArgs, n \in ChildArgs :
          LET o == branch_child(ashes, b, n, overflow_checks)
          IN last' = Call("child", b, n, o.ret, o.panicked)
    /\ UNCHANGED <<fire, phase, ashes, overflow_checks>>
    /\ UNCHANGED decoder_vars
    /\ UNCHANGED tracing_vars

\* ashes.rs 304-312, 396-416: the tree is printed; ret holds the render calls in order
PrintTreeCall ==
    /\ AshesAtRest
    /\ last' = Call("print_tree", ROOT, 0, print_tree(ashes), FALSE)
    /\ UNCHANGED <<fire, phase, ashes, overflow_checks>>
    /\ UNCHANGED decoder_vars
    /\ UNCHANGED tracing_vars

\* the caller has looked at the outcome of an accessor
ReturnCall ==
    /\ ~CallReturned
    /\ last' = NoCall
    /\ UNCHANGED <<fire, phase, ashes, overflow_checks>>
    /\ UNCHANGED decoder_vars
    /\ UNCHANGED tracing_vars

\* fire.rs 203-205: ForestFire::next_id
NextIdCall ==
    /\ phase = "fire" /\ pc = "idle" /\ CallReturned
    /\ last' = Call("next_id", ROOT, 0, Some(next_id(fire)), FALSE)
    /\ UNCHANGED <<fire, phase, ashes, overflow_checks>>
    /\ UNCHANGED decoder_vars
    /\ UNCHANGED tracing_vars

\* fire.rs 222-289: ForestFire::burn consumes the builder; fire keeps what was inserted
BurnCall ==
    /\ phase = "fire" /\ pc = "idle" /\ CallReturned
    /\ ashes' = burn(fire)
    /\ phase' = "ashes"
    /\ last' = Call("burn", ROOT, 0, None, FALSE)
    /\ UNCHANGED <<fire, overflow_checks>>
    /\ UNCHANGED decoder_vars
    /\ UNCHANGED tracing_vars

\* serde.rs 73-85: the caller's Ashes is serialized into the stream to be read back
SerializeCall ==
    /\ phase = "ashes" /\ pc \in {"idle", "done"}
    /\ input = <<>>
    /\ input' = serialize(ashes)
    /\ last' = Call("serialize", ROOT, 0, None, FALSE)
    /\ UNCHANGED <<fire, phase, ashes, overflow_checks, storage, frames, pc, ret, result,
                   src, wire, seeded>>
    /\ UNCHANGED tracing_vars

\* serde.rs 105-106, 132: std::mem::take(&mut storage.ashes) after a successful decode;
\* the result of that decode is consumed and the storage waits for the next one
TakeAshes ==
    /\ pc = "done" /\ result = "ok" /\ input = <<>>
    /\ ashes' = storage.ashes
    /\ storage' = [storage EXCEPT !.ashes = AshesNew]
    /\ phase' = "ashes"
    /\ last' = Call("take", ROOT, 0, None, FALSE)
    /\ pc' = "idle"
    /\ result' = "none"
    /\ UNCHANGED <<fire, overflow_checks, frames, ret, src, input, wire, seeded>>
    /\ UNCHANGED tracing_vars

\* the map entries read so far
NumEntries(w) == Cardinality({j \in DOMAIN w : w[j].t = "entry"})

\* keys of a free input: "v", small child indices, the largest usize values, a number
\* that does not fit usize, and a key that is no number
FreeChildKeys ==
    {FormatUsize(i) : i \in 0..MaxKey} \cup {FormatUsize(UsizeMax - 1), FormatUsize(UsizeMax)}
FreeBadKeys == {FormatUsize(UsizeMax + 1), <<"x">>}

\* the next token of a free input; payloads are opaque to the decoder, and each "v"
\* holds a value no earlier entry holds
FreeTokens ==
    IF NumEntries(wire) >= MaxEntries THEN {EndTok}
    ELSE {EndTok}
         \cup {EntryTok(KeyV, m, NumEntries(wire), 0) : m \in BOOLEAN}
         \cup {EntryTok(k, m, 0, 0) : k \in FreeChildKeys, m \in BOOLEAN}
         \cup {EntryTok(k, FALSE, 0, 0) : k \in FreeBadKeys}

\* the tokens the input can deliver next
NextTokens ==
    IF src = "replay" THEN (IF input # <<>> THEN {Head(input)} ELSE {}) ELSE FreeTokens

\* the token is consumed
Feed(tok) ==
    /\ tok \in NextTokens
    /\ input' = IF src = "replay" THEN Tail(input) ELSE input

\* the maps of the input still open after its first n tokens, outermost first below the
\* root map: each named by the position in w of the child entry whose value it is
RECURSIVE OpenMaps(_, _)
OpenMaps(w, n) ==
    IF n = 0 THEN <<>>
    ELSE LET open == OpenMaps(w, n - 1)
             e == w[n]
         IN IF e.t = "end" THEN SubSeq(open, 1, Len(open) - 1)
            ELSE IF e.map /\ visit_str(e.k).kind = "child" THEN Append(open, n)
            ELSE open

\* the path of the map the next token belongs to
CurPath == OpenMaps(wire, Len(wire))

Read(tok) == [path |-> CurPath, t |-> tok.t, k |-> tok.k, map |-> tok.map, p |-> tok.p]

\* an error (or a panic) unwinds every activation and ends the decode
Fail(st, how) ==
    /\ storage' = st
    /\ frames' = <<>>
    /\ pc' = "done"
    /\ result' = how
    /\ ret' = 0

TopLevelValues == {EntryTok(<<>>, TRUE, 0, 0), EntryTok(<<>>, FALSE, 0, 0)}

\* serde.rs 187-200, 331-336: seed_with clears the storage, deserialize asks for a map
Begin(tok) ==
    /\ wire' = <<>>
    /\ seeded' = Seeded(storage)
    /\ IF tok.map
       THEN /\ storage' = seed_clear(storage)
            /\ frames' = <<Frame(Len(seed_clear(storage).entry_stack), TRUE)>>
            /\ pc' = "map"
            /\ result' = "none"
            /\ ret' = 0
       ELSE Fail(seed_clear(storage), "invalid_type")

\* a decode of the serialized Ashes starts
DeserBeginReplay ==
    /\ pc \in {"idle", "done"}
    /\ input # <<>>
    /\ src' = "replay"
    /\ input' = Tail(input)
    /\ Begin(Head(input))
    /\ UNCHANGED <<fire, phase, ashes, last, overflow_checks>>
    /\ UNCHANGED tracing_vars

\* a decode of an arbitrary input starts, on a new storage or on the storage that
\* earlier decodes, failed ones too, have used
DeserBeginFree ==
    /\ phase = "fire" /\ last = NoCall
    /\ pc \in {"idle", "done"} /\ result # "panic"
    /\ input = <<>>
    /\ src' = "free"
    /\ input' = input
    /\ \E tok \in TopLevelValues : Begin(tok)
    /\ UNCHANGED <<fire, phase, ashes, last, overflow_checks>>
    /\ UNCHANGED tracing_vars

Top == frames[Len(frames)]

\* serde.rs 397-403: Key::Payload
VisitPayloadKey ==
    /\ pc = "map"
    /\ \E tok \in NextTokens :
          /\ tok.t = "entry" /\ visit_str(tok.k).kind = "payload"
          /\ Feed(tok)
          /\ wire' = Append(wire, Read(tok))
          /\ IF is_some(Top.payload) THEN Fail(storage, "duplicate_field")
             ELSE IF tok.map THEN Fail(storage, "invalid_type")
             ELSE /\ frames' = [frames EXCEPT ![Len(frames)].payload = Some(tok.p)]
                  /\ UNCHANGED <<storage, pc, result, ret>>
    /\ UNCHANGED <<fire, phase, ashes, last, overflow_checks, src, seeded>>
    /\ UNCHANGED tracing_vars

\* serde.rs 404-411: Key::Child(i) up to the recursive visit_map of the child value
VisitChildKey ==
    /\ pc = "map"
    /\ \E tok \in NextTokens :
          /\ tok.t = "entry" /\ visit_str(tok.k).kind = "child"
          /\ Feed(tok)
          /\ wire' = Append(wire, Read(tok))
          /\ IF ~tok.map THEN Fail(storage, "invalid_type")
             ELSE /\ frames' = Append(
                        [frames EXCEPT ![Len(frames)].i = visit_str(tok.k).idx,
                                       ![Len(frames)].sub_start = Len(storage.entry_stack)],
                        Frame(Len(storage.entry_stack), FALSE))
                  /\ UNCHANGED <<storage, pc, result, ret>>
    /\ UNCHANGED <<fire, phase, ashes, last, overflow_checks, src, seeded>>
    /\ UNCHANGED tracing_vars

\* serde.rs 376-378: a key that is neither "v" nor a number
VisitInvalidKey ==
    /\ pc = "map"
    /\ \E tok \in NextTokens :
          /\ tok.t = "entry" /\ visit_str(tok.k).kind = "invalid"
          /\ Feed(tok)
          /\ wire' = Append(wire, Read(tok))
          /\ Fail(storage, "invalid_value")
    /\ UNCHANGED <<fire, phase, ashes, last, overflow_checks, src, seeded>>
    /\ UNCHANGED tracing_vars

\* serde.rs 393-395, 448-456: next_key returns None and the map ends
VisitMapEnd ==
    /\ pc = "map"
    /\ \E tok \in NextTokens :
          /\ tok.t = "end"
          /\ Feed(tok)
          /\ wire' = Append(wire, Read(tok))
          /\ LET r == map_end(storage, Top)
             IN IF r.how # "ok" THEN Fail(r.storage, r.how)
                ELSE IF Top.root
                     THEN /\ storage' = r.storage
                          /\ frames' = <<>>
                          /\ pc' = "done"
                          /\ result' = "ok"
                          /\ ret' = 0
                     ELSE /\ storage' = r.storage
                          /\ frames' = SubSeq(frames, 1, Len(frames) - 1)
                          /\ pc' = "ret"
                          /\ ret' = unwrap(Top.payload)
                          /\ result' = result
    /\ UNCHANGED <<fire, phase, ashes, last, overflow_checks, src, seeded>>
    /\ UNCHANGED tracing_vars

\* serde.rs 411-443: the child map has returned; its entries are flushed and its own
\* entry is placed
CollectChild ==
    /\ pc = "ret"
    /\ LET r == collect_child(storage, overflow_checks, Top.start, Top.sub_start, Top.i, ret)
       IN IF r.how # "ok" THEN Fail(r.storage, r.how)
          ELSE /\ storage' = r.storage
               /\ pc' = "map"
               /\ ret' = 0
               /\ UNCHANGED <<frames, result>>
    /\ UNCHANGED <<fire, phase, ashes, last, overflow_checks, src, input, wire, seeded>>
    /\ UNCHANGED tracing_vars

Next ==
    \/ BranchCall
    \/ NextIdCall
    \/ BurnCall
    \/ AshesClearCall
    \/ SerializeCall
    \/ TakeAshes
    \/ DeserBeginReplay
    \/ DeserBeginFree
    \/ VisitPayloadKey
    \/ VisitChildKey
    \/ VisitInvalidKey
    \/ VisitMapEnd
    \/ CollectChild

Spec == Init /\ [][Next]_vars

\* the providers of the crate: one that keeps the defaults of the EventProvider trait
\* (lib.rs 104-106, 125-127: both callbacks wanted) and LogEventProvider (log.rs
\* 207-214: neither)
Providers == {[span_enter |-> TRUE, span_exit |-> TRUE], [span_enter |-> FALSE, span_exit |-> FALSE]}

\* lib.rs 210-221: ForestFireSubscriber::new(ForestFire::new(), provider)
TNew ==
    /\ phase = "fire" /\ pc = "idle" /\ last = NoCall /\ fire = FireNew
    /\ tlast = NoTraceCall
    /\ \E p \in Providers : sub' = SubscriberNew(p.span_enter, p.span_exit)
    /\ tlast' = TraceCall("new", NoThread, 0, None, FALSE)
    /\ UNCHANGED <<fire, phase, ashes, last, overflow_checks, current>>
    /\ UNCHANGED decoder_vars

\* a thread may call into the subscriber: there is one and the thread is not stuck
CanCall(t) ==
    /\ phase = "fire" /\ tlast # NoTraceCall
    /\ t \notin sub.blocked /\ sub.call[t].pc = "idle"

\* self.inner() by thread t while another thread holds the tree mutex for ever: t
\* waits for ever; st is the subscriber as the call has left it by then
BlocksOnInner(st, t, op, s) ==
    /\ sub' = [st EXCEPT !.blocked = @ \cup {t}]
    /\ tlast' = TraceCall(op, t, s, None, FALSE)

\* a second self.inner() by the thread that holds the tree mutex (lib.rs 389, 407)
\* does not return: std's Mutex either panics, and the unwinding releases the mutex,
\* or blocks the thread for ever with the mutex held
Relock(st, t, op, s) ==
    \/ /\ sub' = [st EXCEPT !.inner = t, !.blocked = @ \cup {t}]
       /\ tlast' = TraceCall(op, t, s, None, FALSE)
    \/ /\ sub' = st
       /\ tlast' = TraceCall(op, t, s, None, TRUE)

\* lib.rs 303-328 (new_span, is_span = SpanPayload) and 350-379 (event, is_span =
\* EventPayload): under the thread's stack mutex and the tree mutex the parent is read
\* from the stack, the node is inserted with the payload make_event built, the visitor
\* writes into that payload, and new_span returns br2sp(id)
Emit(t, op, is_span) ==
    /\ IF sub.inner # NoThread
       THEN BlocksOnInner(sub, t, op, 0) /\ UNCHANGED fire
       ELSE LET parent == stack_last(sub.stack[t])
                id == next_id(fire)
                o == branch(fire, parent, is_span)
                w == IF o.panicked THEN o ELSE payload_mut(o.fire, id, is_span)
                sp == IF is_span = SpanPayload THEN br2sp(id) ELSE [ret |-> 0, panicked |-> FALSE]
            IN /\ fire' = w.fire
               /\ tlast' = TraceCall(op, t, sp.ret, o.ret, w.panicked \/ sp.panicked)
               /\ UNCHANGED sub
    /\ UNCHANGED <<phase, ashes, last, overflow_checks, current>>
    /\ UNCHANGED decoder_vars

TNewSpan ==
    \E t \in Threads :
        /\ CanCall(t)
        /\ Len(fire.nodes) < MaxNodes
        /\ Emit(t, "new_span", SpanPayload)

TEvent ==
    \E t \in Threads :
        /\ CanCall(t)
        /\ Len(fire.nodes) < MaxNodes
        /\ Emit(t, "event", EventPayload)

\* lib.rs 384-390, 402-408: what enter and exit do after they have changed the stack st
\* of thread t: nothing unless the provider asks for the callback, else lock the tree
\* mutex, ensure_normal, payload_mut(br), and lock the tree mutex again
SpanCallback(st, wanted, t, op, s) ==
    IF ~wanted
    THEN /\ sub' = st
         /\ tlast' = TraceCall(op, t, s, None, FALSE)
    ELSE IF sub.inner # NoThread THEN BlocksOnInner(st, t, op, s)
    ELSE IF ensure_normal_panics(fire, sp2br(s)) \/ payload_mut(fire, sp2br(s), 0).panicked
         THEN /\ sub' = st
              /\ tlast' = TraceCall(op, t, s, None, TRUE)
         ELSE Relock(st, t, op, s)

\* lib.rs 381-392: enter, for a span id that new_span has returned
TEnter ==
    \E t \in Threads :
        /\ CanCall(t)
        /\ Len(sub.stack[t]) < MaxDepth /\ Len(current[t]) < MaxDepth
        /\ \E s \in IssuedSpans(fire) :
              /\ current' = [current EXCEPT ![t] = Append(@, sp2br(s))]
              /\ SpanCallback([sub EXCEPT !.stack[t] = Append(@, sp2br(s))],
                              sub.should_span_enter, t, "enter", s)
        /\ UNCHANGED <<fire, phase, ashes, last, overflow_checks>>
        /\ UNCHANGED decoder_vars

\* lib.rs 394-410: exit, for a span the thread has entered and not yet exited
TExit ==
    \E t \in Threads :
        /\ CanCall(t)
        /\ \E k \in DOMAIN current[t] :
              LET br == current[t][k]
              IN /\ current' = [current EXCEPT ![t] = exited(@, br)]
                 /\ SpanCallback([sub EXCEPT !.stack[t] = pop_until(@, br)],
                                 sub.should_span_exit, t, "exit", br2sp(br).ret)
        /\ UNCHANGED <<fire, phase, ashes, last, overflow_checks>>
        /\ UNCHANGED decoder_vars

\* lib.rs 227-235: burn takes the subscriber by value, so no call is inside it, and the
\* span stacks are dropped with it
TBurn ==
    /\ phase = "fire" /\ tlast # NoTraceCall
    /\ sub.inner = NoThread /\ sub.blocked = {}
    /\ ashes' = burn(fire)
    /\ phase' = "ashes"
    /\ last' = Call("burn", ROOT, 0, None, FALSE)
    /\ tlast' = TraceCall("burn", NoThread, 0, None, FALSE)
    /\ sub' = SubscriberNew(sub.should_span_enter, sub.should_span_exit)
    /\ current' = [t \in Threads |-> <<>>]
    /\ UNCHANGED <<fire, overflow_checks>>
    /\ UNCHANGED decoder_vars

\* the subscriber under the calls of the threads that report to it
NextTracing ==
    \/ TNew
    \/ TNewSpan
    \/ TEvent
    \/ TEnter
    \/ TExit
    \/ TBurn

SpecTracing == Init /\ [][NextTracing]_vars

\* lib.rs 304-305, 351-352: new_span or event takes the thread's stack mutex, which
\* no other thread asks for, and the tree mutex
ELock ==
    \E t \in Threads : \E op \in {"new_span", "event"} :
        /\ CanCall(t)
        /\ Len(fire.nodes) < MaxNodes
        /\ inner_free(sub)
        /\ sub' = [sub EXCEPT !.inner = t,
                               !.call[t] = [NoEmit EXCEPT !.pc = "locked", !.op = op]]
        /\ UNCHANGED <<fire, phase, ashes, last, overflow_checks, current, tlast>>
        /\ UNCHANGED decoder_vars

\* lib.rs 306-307, 353, 363: the call reads parent from the thread's stack and id from
\* next_id
ERead ==
    \E t \in Threads :
        /\ sub.call[t].pc = "locked"
        /\ sub' = [sub EXCEPT !.call[t].pc = "read",
                               !.call[t].parent = stack_last(sub.stack[t]),
                               !.call[t].id = next_id(fire)]
        /\ UNCHANGED <<fire, phase, ashes, last, overflow_checks, current, tlast>>
        /\ UNCHANGED decoder_vars

\* lib.rs 308-317, 354-364: make_event and forest.branch(parent, event); a panic of
\* branch unwinds out of the call and drops the guards
EBranch ==
    \E t \in Threads :
        /\ sub.call[t].pc = "read"
        /\ LET c == sub.call[t]
               o == branch(fire, c.parent, IF c.op = "new_span" THEN SpanPayload ELSE EventPayload)
           IN /\ fire' = o.fire
              /\ IF o.panicked
                 THEN /\ sub' = [sub EXCEPT !.inner = NoThread, !.call[t] = NoEmit]
                      /\ tlast' = TraceCall(c.op, t, 0, None, TRUE)
                 ELSE /\ sub' = [sub EXCEPT !.call[t].pc = "inserted",
                                            !.call[t].node = Len(fire.nodes)]
                      /\ UNCHANGED tlast
        /\ UNCHANGED <<phase, ashes, last, overflow_checks, current>>
        /\ UNCHANGED decoder_vars

\* lib.rs 320-327, 366-378: the visitor writes into payload_mut(id), new_span returns
\* br2sp(id), and the guards are dropped
EReturn ==
    \E t \in Threads :
        /\ sub.call[t].pc = "inserted"
        /\ LET c == sub.call[t]
               v == IF c.op = "new_span" THEN SpanPayload ELSE EventPayload
               w == payload_mut(fire, c.id, v)
               sp == IF c.op = "new_span" THEN br2sp(c.id) ELSE [ret |-> 0, panicked |-> FALSE]
           IN /\ fire' = w.fire
              /\ tlast' = TraceCall(c.op, t, sp.ret, Some(c.id), w.panicked \/ sp.panicked)
        /\ sub' = [sub EXCEPT !.inner = NoThread, !.call[t] = NoEmit]
        /\ UNCHANGED <<phase, ashes, last, overflow_checks, current>>
        /\ UNCHANGED decoder_vars

\* enter and exit with a provider that wants no span callbacks (log.rs 207-214): they
\* take the thread's stack mutex only
EEnter == ~sub.should_span_enter /\ TEnter

EExit == ~sub.should_span_exit /\ TExit

\* the subscriber with the steps of new_span and event of several threads interleaved
NextEmit ==
    \/ TNew
    \/ ELock
    \/ ERead
    \/ EBranch
    \/ EReturn
    \/ EEnter
    \/ EExit

SpecEmit == Init /\ [][NextEmit]_vars

\* the builder and the snapshot frozen from it under the calls of their accessors
NextAccess ==
    \/ BranchCall
    \/ NextIdCall
    \/ FireReadCall
    \/ GetPayloadMutCall
    \/ PayloadMutCall
    \/ BurnCall
    \/ AshesClearCall
    \/ ChildCall
    \/ PrintTreeCall
    \/ ReturnCall

SpecAccess == Init /\ [][NextAccess]_vars

\* the builder and the snapshot frozen from it under payload writes
NextWrite ==
    \/ BranchCall
    \/ GetPayloadMutCall
    \/ PayloadMutCall
    \/ BurnCall
    \/ BranchMutPayloadCall
    \/ ReturnCall

SpecWrite == Init /\ [][NextWrite]_vars

-----------------------------------------------------------------------------
(* What a tree is, read off an Ashes through its children ranges alone *)

\* the subtrees under the positions of range r, in range order: payload and children
RECURSIVE Canon(_, _)
Canon(a, r) ==
    [k \in 1..(r.end - r.start) |->
        [v |-> a.nodes[r.start + k].payload,
         c |-> Canon(a, a.nodes[r.start + k].children)]]

TreeOf(a) == Canon(a, a.root_children)

\* the ids met by a pre-order walk from the positions of range r
RECURSIVE Walk(_, _, _)
Walk(a, r, k) ==
    IF r.start + k >= r.end THEN <<>>
    ELSE <<r.start + k>> \o Walk(a, a.nodes[r.start + k + 1].children, 0) \o Walk(a, r, k + 1)

WalkAll(a) == Walk(a, a.root_children, 0)

\* the ranges of a snapshot are well formed: start <= end <= node_count
RangesInBounds(a) ==
    /\ a.root_children.start <= a.root_children.end
    /\ a.root_children.end <= Len(a.nodes)
    /\ \A j \in 1..Len(a.nodes) :
          a.nodes[j].children.start <= a.nodes[j].children.end
          /\ a.nodes[j].children.end <= Len(a.nodes)

\* the owners of position i: ROOT and the ids of the nodes whose children range holds i
Owners(a, i) ==
    {b \in (0..(Len(a.nodes) - 1)) \cup {ROOT} : i \in RngSet(children(a, b))}

\* every position of the node array lies in exactly one children range
Partition(a) ==
    /\ \A i \in 0..(Len(a.nodes) - 1) : Cardinality(Owners(a, i)) = 1
    /\ \A b \in (0..(Len(a.nodes) - 1)) \cup {ROOT} :
          RngSet(children(a, b)) \subseteq 0..(Len(a.nodes) - 1)

-----------------------------------------------------------------------------
(* Claims about the builder and about freezing *)

\* the builder id of the node at position x of the frozen array
OldIdx(x) == ashes.nodes[x + 1].old_idx

\* the state right after burn: ashes is the frozen form of fire
Burnt == last.op = "burn"

\* C1: freeze keeps the tree. After burn the snapshot has one node per inserted node,
\* each with the payload it was inserted with; X lies in the children range of Y (of the
\* root) exactly when X was inserted with parent Y (ROOT); and the walk from the root
\* through the children ranges meets every node exactly once.
C1_FreezeKeepsTree ==
    Burnt =>
        LET n == Len(fire.nodes)
            ids == 0..(n - 1)
        IN /\ Len(ashes.nodes) = n
           /\ \A x \in ids : OldIdx(x) \in ids
           /\ \A x, y \in ids : OldIdx(x) = OldIdx(y) => x = y
           /\ \A x \in ids : ashes.nodes[x + 1].payload = fire.nodes[OldIdx(x) + 1].payload
           /\ \A x, y \in ids :
                 (x \in RngSet(ashes.nodes[y + 1].children))
                     <=> (fire.nodes[OldIdx(x) + 1].parent = OldIdx(y))
           /\ \A x \in ids :
                 (x \in RngSet(ashes.root_children))
                     <=> (fire.nodes[OldIdx(x) + 1].parent = ROOT)
           /\ Len(WalkAll(ashes)) = n
           /\ {WalkAll(ashes)[k] : k \in 1..Len(WalkAll(ashes))} = ids

\* a frozen tree of three or more nodes, one of them under another node, that sorting
\* has reordered
C1_Witness ==
    /\ Burnt
    /\ Len(ashes.nodes) >= 3
    /\ \E x \in 0..(Len(ashes.nodes) - 1) : OldIdx(x) # x
    /\ \E x \in 0..(Len(ashes.nodes) - 1) : ~is_root(ashes.nodes[x + 1].parent)

\* C2: siblings keep their insertion order. After burn, inside root_children and inside
\* every node's children range the builder ids increase strictly.
C2_SiblingOrder ==
    Burnt =>
        \A b \in (0..(Len(ashes.nodes) - 1)) \cup {ROOT} :
            \A x, y \in RngSet(children(ashes, b)) :
                x < y => OldIdx(x) < OldIdx(y)

\* two siblings between whose inserts a node was inserted under another parent
C2_Witness ==
    /\ Burnt
    /\ \E b \in (0..(Len(ashes.nodes) - 1)) \cup {ROOT} :
          \E x, y \in RngSet(children(ashes, b)) : x < y /\ OldIdx(y) > OldIdx(x) + 1

\* C3: contiguity. In the snapshot a caller holds (from burn or taken from a decode) and
\* in the snapshot a successful decode leaves in the storage, every children range has
\* start <= end <= node_count and every position of the node array lies in the children
\* range of exactly one node or of the root.
C3_RangesPartition ==
    /\ phase = "ashes" => RangesInBounds(ashes) /\ Partition(ashes)
    /\ (pc = "done" /\ result = "ok") =>
          RangesInBounds(storage.ashes) /\ Partition(storage.ashes)

\* a frozen tree with a grandchild has been decoded back
C3_Witness ==
    /\ pc = "done" /\ result = "ok" /\ phase = "ashes"
    /\ Len(fire.nodes) >= 3
    /\ Len(storage.ashes.nodes) >= 3
    /\ \E j \in 1..Len(storage.ashes.nodes) : ~is_root(storage.ashes.nodes[j].parent)

\* C5: an insert under a parent that is neither ROOT nor an id below node_count panics
\* and leaves the builder as it was.
C5_BadParentRejected ==
    [][(last'.op = "branch" /\ ~is_root(last'.parent) /\ last'.parent >= Len(fire.nodes))
          => (last'.panicked /\ last'.ret = None /\ fire' = fire)]_vars

\* an insert under the id the insert itself would have received has panicked
C5_Witness ==
    /\ last.op = "branch" /\ last.panicked
    /\ last.parent = Len(fire.nodes)
    /\ Len(fire.nodes) >= 1

\* C6: a successful insert returns the id whose value is the number of nodes inserted
\* before it, never ROOT, and appends one node; next_id leaves the builder unchanged and
\* returns the id the insert that follows it returns.
C6_IdsCountUp ==
    [][/\ (last'.op = "branch" /\ ~last'.panicked) =>
             /\ last'.ret = Some(Len(fire.nodes))
             /\ ~is_root(unwrap(last'.ret))
             /\ Len(fire'.nodes) = Len(fire.nodes) + 1
       /\ last'.op = "next_id" => fire' = fire /\ last'.ret = Some(Len(fire.nodes))
       /\ (last.op = "next_id" /\ last'.op = "branch" /\ ~last'.panicked) =>
             last'.ret = last.ret]_vars

\* next_id has been asked of a builder that holds nodes
C6_Witness ==
    /\ last.op = "next_id"
    /\ Len(fire.nodes) >= 2
    /\ last.ret = Some(Len(fire.nodes))

-----------------------------------------------------------------------------
(* Claims about the codec. wire holds what the decoder has read: each entry with the   *)
(* path of the map it stands in, and each map end with the path of the map it ends. A  *)
(* path names the maps from the root map down, each by the position in wire of the     *)
(* child entry whose value it is.                                                      *)

\* C4: round trip. When the decode of the serialized form of the caller's snapshot (a
\* frozen one or one taken from an earlier decode) has returned, it has succeeded and
\* the decoded snapshot has as many nodes and, position by position from the root, the
\* same child counts, payloads and sibling order.
C4_RoundTrip ==
    (pc = "done" /\ src = "replay") =>
        /\ result = "ok"
        /\ Len(storage.ashes.nodes) = Len(ashes.nodes)
        /\ TreeOf(storage.ashes) = TreeOf(ashes)

\* a frozen tree with a grandchild and two siblings has made the round trip
C4_Witness ==
    /\ pc = "done" /\ src = "replay" /\ result = "ok"
    /\ Len(ashes.nodes) >= 3
    /\ \E j \in 1..Len(ashes.nodes) : ~is_root(ashes.nodes[j].parent)
    /\ \E b \in (0..(Len(ashes.nodes) - 1)) \cup {ROOT} : n_children(ashes, b) >= 2

IsEntry(e) == e.t = "entry"
IsPayloadEntry(e) == IsEntry(e) /\ e.k = KeyV
IsChildEntry(e) == IsEntry(e) /\ e.k # KeyV /\ is_some(ParseUsize(e.k))
Idx(e) == unwrap(ParseUsize(e.k))

\* positions in w of the child entries and of the "v" entries of the map at path m
ChildAt(w, m) == {j \in DOMAIN w : IsChildEntry(w[j]) /\ w[j].path = m}
VAt(w, m) == {j \in DOMAIN w : IsPayloadEntry(w[j]) /\ w[j].path = m}

\* the maps of the input: the root map and every map that is the value of a child entry
MapPaths(w) ==
    {<<>>} \cup {Append(w[j].path, j) : j \in {i \in DOMAIN w : IsChildEntry(w[i]) /\ w[i].map}}

\* the child indices along path m
IdxPath(w, m) == [k \in 1..Len(m) |-> Idx(w[m[k]])]

Closed(w, m) == \E j \in DOMAIN w : w[j].t = "end" /\ w[j].path = m

\* some child index occurs twice in the map at m
HasDup(w, m) == \E j1, j2 \in ChildAt(w, m) : j1 # j2 /\ Idx(w[j1]) = Idx(w[j2])

\* some index below a present child index is missing in the map at m
HasGap(w, m) ==
    \E j \in ChildAt(w, m) : \E i \in 0..(Idx(w[j]) - 1) :
        \A j2 \in ChildAt(w, m) : Idx(w[j2]) # i

\* a key that is neither "v" nor a number that fits usize
HasBadKey(w) == \E j \in DOMAIN w : IsEntry(w[j]) /\ ~IsPayloadEntry(w[j]) /\ ~IsChildEntry(w[j])

\* a child key whose value is no map, or a "v" whose value is a map
HasBadShape(w) ==
    \E j \in DOMAIN w : (IsChildEntry(w[j]) /\ ~w[j].map) \/ (IsPayloadEntry(w[j]) /\ w[j].map)

\* the payload rule of the map at m holds: none in the root, exactly one elsewhere
PayloadRule(w, m) == Cardinality(VAt(w, m)) = (IF m = <<>> THEN 0 ELSE 1)

\* nothing read so far breaks the payload rules: no map has two "v", no ended non-root
\* map is without "v", the root has none
PayloadsFine(w) ==
    \A m \in MapPaths(w) :
        /\ Cardinality(VAt(w, m)) <= 1
        /\ m = <<>> => VAt(w, m) = {}
        /\ (m # <<>> /\ Closed(w, m)) => VAt(w, m) # {}

\* a complete, valid input
ValidWire(w) ==
    /\ ~HasBadKey(w) /\ ~HasBadShape(w)
    /\ \A m \in MapPaths(w) :
          Closed(w, m) /\ ~HasDup(w, m) /\ ~HasGap(w, m) /\ PayloadRule(w, m)

\* the id reached from branch b by taking child m[1], then child m[2] of that, ...; -1
\* when there is no such child
RECURSIVE Nav(_, _, _)
Nav(a, b, m) ==
    IF m = <<>> THEN b
    ELSE LET r == children(a, b)
             c == r.start + Head(m)
         IN IF c < r.end /\ c < Len(a.nodes) THEN Nav(a, c, Tail(m)) ELSE -1

\* the decoded snapshot is the tree the input describes: the map stored under key k of a
\* map is the child at position k of that map's node
DecodedAsKeyed(a, w) ==
    /\ Len(a.nodes) = Cardinality(MapPaths(w)) - 1
    /\ \A m \in MapPaths(w) :
          LET b == Nav(a, ROOT, IdxPath(w, m))
          IN /\ b # -1
             /\ n_children(a, b) = Cardinality(ChildAt(w, m))
             /\ m # <<>> => \A j \in VAt(w, m) : payload_of(a, b) = Some(w[j].p)

\* C7 as claimed: a decode accepts only maps whose child keys are exactly 0..n-1; an
\* input whose one defect is a child index occurring twice is rejected with a
\* duplicate-field error, and one whose one defect is a missing child index with a
\* missing-field error.
C7_ChildKeysExact ==
    pc = "done" =>
        /\ result = "ok" => \A m \in MapPaths(wire) : ~HasDup(wire, m) /\ ~HasGap(wire, m)
        /\ ( /\ \E m \in MapPaths(wire) : HasDup(wire, m)
             /\ \A m \in MapPaths(wire) : ~HasGap(wire, m)
             /\ ~HasBadKey(wire) /\ ~HasBadShape(wire) /\ PayloadsFine(wire) )
           => result = "duplicate_field"
        /\ ( /\ \E m \in MapPaths(wire) : HasGap(wire, m)
             /\ \A m \in MapPaths(wire) : ~HasDup(wire, m)
             /\ ~HasBadKey(wire) /\ ~HasBadShape(wire) /\ PayloadsFine(wire) )
           => result = "missing_field"

\* C8 as claimed, for inputs whose keys are all "v" or numbers and whose values have
\* the right shape: a root map with a "v" entry is rejected with the payload-in-root
\* error, a non-root map without "v" with a missing-field error, a map with two "v"
\* with a duplicate-field error.
C8_PayloadRulesAsClaimed ==
    (pc = "done" /\ ~HasBadKey(wire) /\ ~HasBadShape(wire)) =>
        /\ VAt(wire, <<>>) # {} => result = "payload_in_root"
        /\ (\E m \in MapPaths(wire) : m # <<>> /\ Closed(wire, m) /\ VAt(wire, m) = {})
              => result = "missing_field"
        /\ (\E m \in MapPaths(wire) : Cardinality(VAt(wire, m)) >= 2)
              => result = "duplicate_field"

\* C8 amended: a root map with exactly one "v" entry in an input that is otherwise valid
\* is rejected with the payload-in-root error; a decode that reads a second "v" in a map
\* ends with a duplicate-field error; a decode that reaches the end of a non-root map
\* without "v" ends with a missing-field error; after a successful decode the root map
\* has no "v" and every other map exactly one.
C8_PayloadRules ==
    pc = "done" =>
        /\ ( /\ Cardinality(VAt(wire, <<>>)) = 1
             /\ ~HasBadKey(wire) /\ ~HasBadShape(wire)
             /\ \A m \in MapPaths(wire) :
                   /\ Closed(wire, m) /\ ~HasDup(wire, m) /\ ~HasGap(wire, m)
                   /\ m # <<>> => PayloadRule(wire, m) )
           => result = "payload_in_root"
        /\ (\E m \in MapPaths(wire) : m # <<>> /\ Closed(wire, m) /\ VAt(wire, m) = {})
              => result = "missing_field"
        /\ (\E m \in MapPaths(wire) : Cardinality(VAt(wire, m)) >= 2)
              => result = "duplicate_field"
        /\ result = "ok" => \A m \in MapPaths(wire) : PayloadRule(wire, m)

\* a root map with a child and one "v" has been rejected for its payload
C8_Witness ==
    /\ pc = "done" /\ result = "payload_in_root"
    /\ Cardinality(VAt(wire, <<>>)) = 1
    /\ ChildAt(wire, <<>>) # {}

\* C9 as claimed: decode never fails fatally, whatever the input.
C9_NeverFatal == result # "panic"

\* C10: the order of a map's entries does not matter. When the decode of a valid input
\* has returned, it has succeeded, and the child at position k of every node is the map
\* that was stored under key k, with the payload of that map's "v" entry.
C10_OrderIndependent ==
    (pc = "done" /\ ValidWire(wire)) =>
        /\ result = "ok"
        /\ DecodedAsKeyed(storage.ashes, wire)

\* a valid input in which key "1" arrived before key "0" has been decoded
C10_Witness ==
    /\ pc = "done" /\ src = "free" /\ result = "ok" /\ ValidWire(wire)
    /\ \E j1, j2 \in ChildAt(wire, <<>>) : j1 < j2 /\ Idx(wire[j1]) > Idx(wire[j2])

-----------------------------------------------------------------------------
(* Claims about the empty tree and about the encoding *)

\* the stream of a map without entries: the map opens with declared length 0 and ends
EmptyMapTokens == <<EntryTok(<<>>, TRUE, 0, 0), EndTok>>

\* C11: the empty tree. Freezing a builder without nodes gives a snapshot with no nodes
\* and root_children = 0..0; a snapshot without nodes is encoded as a map with no
\* entries; and the decode of a map with no entries succeeds with a snapshot that has no
\* nodes and root_children = 0..0.
C11_EmptyTree ==
    /\ (Burnt /\ fire.nodes = <<>>) => ashes = [nodes |-> <<>>, root_children |-> Rng(0, 0)]
    /\ (phase = "ashes" /\ ashes.nodes = <<>>) => serialize(ashes) = EmptyMapTokens
    /\ (pc = "done" /\ Len(wire) = 1 /\ wire[1].t = "end") =>
          /\ result = "ok"
          /\ storage.ashes = [nodes |-> <<>>, root_children |-> Rng(0, 0)]

\* the snapshot frozen from a builder without nodes has been encoded and decoded back
C11_Witness ==
    /\ (pc = "done" /\ Len(wire) = 1 /\ wire[1].t = "end") /\ src = "replay" /\ result = "ok"
    /\ phase = "ashes" /\ fire.nodes = <<>> /\ ashes.nodes = <<>>
    /\ last.op = "serialize"

\* the entries and map ends of a serialized stream below its top-level value, each with
\* the path of the map it stands in, as the decoder would record them in wire
WireOf(toks) ==
    LET body == Tail(toks)
    IN [j \in 1..Len(body) |->
           [path |-> OpenMaps(body, j - 1), t |-> body[j].t, k |-> body[j].k,
            map |-> body[j].map, p |-> body[j].p, n |-> body[j].n]]

\* the length declared for the map at path m of the stream toks
DeclaredLen(toks, m) == IF m = <<>> THEN toks[1].n ELSE Tail(toks)[m[Len(m)]].n

\* fire.rs: the builder of the example, ids 0..4 with their ids as payloads: 0 and 2
\* under the root, 1 under 0, 3 and 4 under 2
ExampleFire ==
    [nodes |-> <<FireNode(ROOT, 0), FireNode(0, 1), FireNode(ROOT, 2), FireNode(2, 3),
                 FireNode(2, 4)>>]

\* {"0":{"v":0,"0":{"v":1}},"1":{"v":2,"0":{"v":3},"1":{"v":4}}}
ExampleTokens ==
    <<EntryTok(<<>>, TRUE, 0, 2),
        EntryTok(<<"0">>, TRUE, 0, 2), EntryTok(KeyV, FALSE, 0, 0),
          EntryTok(<<"0">>, TRUE, 0, 1), EntryTok(KeyV, FALSE, 1, 0), EndTok,
        EndTok,
        EntryTok(<<"1">>, TRUE, 0, 3), EntryTok(KeyV, FALSE, 2, 0),
          EntryTok(<<"0">>, TRUE, 0, 1), EntryTok(KeyV, FALSE, 3, 0), EndTok,
          EntryTok(<<"1">>, TRUE, 0, 1), EntryTok(KeyV, FALSE, 4, 0), EndTok,
        EndTok,
      EndTok>>

\* C12: the shape of the encoding. The stream written for a snapshot is one map per node
\* and one for the root: the root's map has no "v", every other map exactly one "v" with
\* the node's payload; every map has one map-valued entry per child, the child at
\* position k under the key "k", and no other entry; the declared length of a map is its
\* number of children plus one if it has a payload. The example tree encodes to the
\* example stream (a fact about no variable, looked at before the first call).
C12_EncodingShape ==
    /\ phase = "ashes" =>
          LET toks == serialize(ashes)
              W == WireOf(toks)
          IN /\ toks[1] = EntryTok(<<>>, TRUE, 0, DeclaredLen(toks, <<>>))
             /\ ValidWire(W)
             /\ DecodedAsKeyed(ashes, W)
             /\ \A m \in MapPaths(W) :
                   DeclaredLen(toks, m)
                       = Cardinality(ChildAt(W, m)) + Cardinality(VAt(W, m))
    /\ last = NoCall => serialize(burn(ExampleFire)) = ExampleTokens

\* a snapshot with a node of two children and with a grandchild has been encoded
C12_Witness ==
    /\ phase = "ashes" /\ last.op = "serialize"
    /\ input = serialize(ashes)
    /\ \E b \in 0..(Len(ashes.nodes) - 1) : n_children(ashes, b) >= 1
    /\ \E b \in (0..(Len(ashes.nodes) - 1)) \cup {ROOT} : n_children(ashes, b) >= 2

-----------------------------------------------------------------------------
(* Claims about the accessors *)

\* C13: exists. In every state, on the builder, on the snapshot the caller holds (frozen,
\* taken from a decode, or cleared) and on the snapshot in the decode storage, exists is
\* true of ROOT and, of any other id, true exactly when the id is below node_count.
C13_Exists ==
    \A id \in 0..UsizeMax :
        /\ exists(fire, id) <=> (id = ROOT \/ id < node_count(fire))
        /\ ashes_exists(ashes, id) <=> (id = ROOT \/ id < Len(ashes.nodes))
        /\ ashes_exists(storage.ashes, id) <=> (id = ROOT \/ id < Len(storage.ashes.nodes))

\* a snapshot frozen from a builder with nodes has been cleared: id 0 exists on the
\* builder and no longer on the snapshot
C13_Witness ==
    /\ last.op = "clear"
    /\ Len(fire.nodes) >= 2 /\ exists(fire, 0) /\ ~exists(fire, Len(fire.nodes))
    /\ ashes.nodes = <<>> /\ ~ashes_exists(ashes, 0) /\ ashes_exists(ashes, ROOT)

\* C14: child_count and nth_child. When child(n) has been called on the view of an
\* existing branch or of the root, with children range s..e: the child count is e - s
\* and computing it did not underflow; for n below e - s the call returned the id
\* s + n; for every other n, those with s + n beyond usize::MAX included, it panicked
\* and returned no id.
C14_NthChild ==
    (last.op = "child" /\ ashes_exists(ashes, last.parent)) =>
        LET r == children(ashes, last.parent)
            n == last.payload
        IN /\ r.start <= r.end
           /\ ~children_len_panics(r, overflow_checks)
           /\ n_children(ashes, last.parent) = r.end - r.start
           /\ n < r.end - r.start => (~last.panicked /\ last.ret = Some(r.start + n))
           /\ n >= r.end - r.start => (last.panicked /\ last.ret = None)

\* child(n) has been called on a node whose children start after position 0, with an n
\* for which s + n does not fit usize
C14_Witness ==
    /\ last.op = "child" /\ ashes_exists(ashes, last.parent) /\ last.panicked
    /\ n_children(ashes, last.parent) >= 1
    /\ children(ashes, last.parent).start >= 1
    /\ children(ashes, last.parent).start + last.payload > UsizeMax

\* C15 as stated: parent(ROOT) and payload(ROOT) return an absence without failing,
\* and parent, payload and payload_mut with a missing id fail fatally and leave the
\* builder unchanged.
C15_Original ==
    [][ /\ (last'.op \in {"parent", "payload"} /\ is_root(last'.parent)) =>
              (~last'.panicked /\ last'.ret = None /\ fire' = fire)
        /\ (last'.op \in {"parent", "payload", "payload_mut"}
            /\ ~is_root(last'.parent) /\ ~exists(fire, last'.parent)) =>
              (last'.panicked /\ last'.ret = None /\ fire' = fire) ]_vars

\* C15 amended: parent(ROOT) and get_payload(ROOT) return an absence without failing,
\* payload(ROOT) fails fatally, and parent, payload and payload_mut with a missing id
\* fail fatally and leave the builder unchanged.
C15_RootAndMissing ==
    [][ /\ (last'.op \in {"parent", "get_payload"} /\ is_root(last'.parent)) =>
              (~last'.panicked /\ last'.ret = None /\ fire' = fire)
        /\ (last'.op = "payload" /\ is_root(last'.parent)) =>
              (last'.panicked /\ fire' = fire)
        /\ (last'.op \in {"parent", "payload", "payload_mut"}
            /\ ~is_root(last'.parent) /\ ~exists(fire, last'.parent)) =>
              (last'.panicked /\ last'.ret = None /\ fire' = fire) ]_vars

\* payload(ROOT) has been called on a builder that holds nodes, and it panicked
C15_Witness ==
    /\ last.op = "payload" /\ is_root(last.parent) /\ last.panicked
    /\ Len(fire.nodes) >= 1

\* C16: a payload write through get_payload_mut or payload_mut on the builder, or
\* through branch_mut(b).payload() on a snapshot, changes only the payload of the
\* addressed node (which then holds the written value): the node count, every node's
\* parent and children range, root_children and every other payload stay as they were,
\* so every write leaves the shape of the tree as it was.
C16_PayloadWriteFrame ==
    [][ LET Structure(node) == [node EXCEPT !.payload = 0]
            OnlyPayloadOf(old, new, of) ==
                /\ Len(new) = Len(old)
                /\ \A j \in 1..Len(old) :
                      /\ Structure(new[j]) = Structure(old[j])
                      /\ j # of + 1 => new[j] = old[j]
        IN
        /\ last'.op \in {"get_payload_mut", "payload_mut"} =>
              /\ OnlyPayloadOf(fire.nodes, fire'.nodes, last'.parent)
              /\ node_count(fire') = node_count(fire)
              /\ (~is_root(last'.parent) /\ exists(fire, last'.parent)) =>
                    fire'.nodes[last'.parent + 1].payload = last'.payload
              /\ ashes' = ashes
        /\ last'.op = "branch_mut" =>
              /\ OnlyPayloadOf(ashes.nodes, ashes'.nodes, last'.parent)
              /\ ashes'.root_children = ashes.root_children
              /\ \A b \in 0..(Len(ashes.nodes) - 1) :
                    /\ children(ashes', b) = children(ashes, b)
                    /\ ashes'.nodes[b + 1].parent = ashes.nodes[b + 1].parent
              /\ (~is_root(last'.parent) /\ ashes_exists(ashes, last'.parent)) =>
                    ashes'.nodes[last'.parent + 1].payload = last'.payload
              /\ fire' = fire ]_vars

\* a write through branch_mut has replaced the payload of a node other than the first
\* of a snapshot by a different value
C16_Witness ==
    /\ last.op = "branch_mut" /\ last.parent >= 1 /\ ~is_root(last.parent)
    /\ ~last.panicked /\ is_some(last.ret) /\ last.ret # Some(last.payload)
    /\ Len(ashes.nodes) >= 2

-----------------------------------------------------------------------------
(* Claims about the reuse of a decode storage *)

\* C17: every decode starts from a cleared storage. Whatever earlier decodes, successful
\* or failed, left in the storage and whatever snapshot its ashes field holds, the step
\* that starts a decode leaves the storage as AshDeserStorage::new() makes it (no nodes,
\* root_children 0..0, no pending entries) with the root map starting at slot 0, which
\* is the state a decode on a new storage starts from; and a decode that has succeeded
\* holds one node for each child map of its own input and no pending entries.
C17_CleanStart ==
    /\ [][ (DeserBeginReplay \/ DeserBeginFree) =>
              /\ storage' = StorageNew
              /\ storage'.ashes.nodes = <<>> /\ storage'.ashes.root_children = Rng(0, 0)
              /\ storage'.entry_stack = <<>>
              /\ pc' = "map" => frames' = <<Frame(0, TRUE)>>
              /\ pc' = "done" => (result' = "invalid_type" /\ frames' = <<>>) ]_vars
    /\ [](pc = "done" /\ result = "ok" =>
              /\ Len(storage.ashes.nodes) = Cardinality(MapPaths(wire)) - 1
              /\ storage.entry_stack = <<>>)

\* a decode has succeeded with nodes on a storage that, when the decode started, held
\* pending entries of a failed decode
C17_Witness ==
    /\ pc = "done" /\ result = "ok" /\ src = "free"
    /\ seeded.used /\ seeded.stack
    /\ Len(storage.ashes.nodes) >= 1

-----------------------------------------------------------------------------
(* Claims about printing *)

\* node d lies below branch b in snapshot a
RECURSIVE Descends(_, _, _)
Descends(a, d, b) ==
    /\ ~is_root(d)
    /\ \/ a.nodes[d + 1].parent = b
       \/ Descends(a, a.nodes[d + 1].parent, b)

\* C18: when a snapshot has been printed, the render function was called once for the
\* root and once for each node and no more: first for the root, with no payload and
\* depth 0; for each node with its payload, after the call for its parent and with the
\* parent's depth plus one; and of two siblings the one earlier in their parent's
\* children range was rendered first, together with everything below it.
C18_PrintPreOrder ==
    last.op = "print_tree" =>
        LET p == last.ret
            Ids == 0..(Len(ashes.nodes) - 1)
            PosOf(q, b) == IF \E j \in DOMAIN q : q[j].branch = b
                           THEN CHOOSE j \in DOMAIN q : q[j].branch = b
                           ELSE 0
        IN /\ Len(p) = Len(ashes.nodes) + 1
           /\ p[1] = Render(ROOT, None, 0)
           /\ \A b \in Ids :
                 /\ Cardinality({j \in DOMAIN p : p[j].branch = b}) = 1
                 /\ p[PosOf(p, b)].payload = Some(ashes.nodes[b + 1].payload)
                 /\ PosOf(p, ashes.nodes[b + 1].parent) >= 1
                 /\ PosOf(p, ashes.nodes[b + 1].parent) < PosOf(p, b)
                 /\ p[PosOf(p, b)].indent = p[PosOf(p, ashes.nodes[b + 1].parent)].indent + 1
           /\ \A b, c \in Ids :
                 (b < c /\ ashes.nodes[b + 1].parent = ashes.nodes[c + 1].parent) =>
                    /\ PosOf(p, b) < PosOf(p, c)
                    /\ \A d \in Ids : Descends(ashes, d, b) => PosOf(p, d) < PosOf(p, c)
                    /\ \A d \in Ids : Descends(ashes, d, c) => PosOf(p, b) < PosOf(p, d)

\* a snapshot in which the first child of the root has a child and a later sibling
\* has been printed
C18_Witness ==
    /\ last.op = "print_tree" /\ Len(last.ret) = 4
    /\ n_children(ashes, ROOT) = 2
    /\ n_children(ashes, ashes.root_children.start) = 1
    /\ \E j \in DOMAIN last.ret : last.ret[j].indent = 2

-----------------------------------------------------------------------------
(* Claims about the ids of the builder *)

\* C19: ids issued by the builder stay valid. An insert that returns id i leaves a node
\* i with the parent and the payload it was given; and every later step of the
\* builder's life (an insert, a read, a payload write) leaves every id issued before
\* existing, with the same parent, and with the same payload unless the step wrote the
\* payload of that very node.
C19_IdsStayValid ==
    [][ phase' = "fire" =>
          /\ (last'.op = "branch" /\ is_some(last'.ret)) =>
                LET i == unwrap(last'.ret)
                IN /\ exists(fire', i) /\ ~exists(fire, i)
                   /\ fire_parent(fire', i).ret = Some(last'.parent)
                   /\ fire_payload(fire', i).ret = Some(last'.payload)
          /\ \A i \in 0..(node_count(fire) - 1) :
                /\ exists(fire', i)
                /\ ~fire_parent(fire', i).panicked
                /\ fire_parent(fire', i).ret = fire_parent(fire, i).ret
                /\ ~fire_payload(fire', i).panicked
                /\ ~(last'.op \in {"get_payload_mut", "payload_mut"} /\ last'.parent = i) =>
                      fire_payload(fire', i).ret = fire_payload(fire, i).ret ]_vars

\* the payload of the second node has been overwritten while the first node, issued
\* before it, holds another payload
C19_Witness ==
    /\ phase = "fire" /\ last.op = "payload_mut" /\ last.parent = 1 /\ ~last.panicked
    /\ node_count(fire) >= 2
    /\ last.ret # Some(last.payload)
    /\ fire_payload(fire, 0).ret # fire_payload(fire, 1).ret

-----------------------------------------------------------------------------
(* Claims about the tracing subscriber *)

\* C20 as claimed, for a provider that asks for no span callbacks (as LogEventProvider):
\* every new_span and event call appends exactly one node, and the parent of that node
\* is the span the calling thread entered last and has not yet exited, or ROOT when the
\* thread is inside no span.
C20_ParentIsCurrentSpan ==
    [][ LET CurrentSpan(t) == IF current[t] = <<>> THEN ROOT ELSE current[t][Len(current[t])]
        IN
        ( /\ tlast'.op \in {"new_span", "event"}
          /\ ~sub.should_span_enter /\ ~sub.should_span_exit ) =>
          /\ node_count(fire') = node_count(fire) + 1
          /\ fire' = [nodes |-> Append(fire.nodes, fire'.nodes[Len(fire'.nodes)])]
          /\ fire'.nodes[Len(fire'.nodes)].parent = CurrentSpan(tlast'.thread) ]_vars

-----------------------------------------------------------------------------
(* Claims about the layout of a snapshot *)

\* C22 as claimed: in the snapshot frozen from a non-empty builder the nodes under ROOT
\* are the first group of the array: root_children starts at 0 and every other
\* non-empty children range starts at or after root_children.end.
C22_RootGroupFirst ==
    (Burnt /\ Len(ashes.nodes) >= 1) =>
        /\ ashes.root_children.start = 0
        /\ \A j \in 1..Len(ashes.nodes) :
              ashes.nodes[j].children.start < ashes.nodes[j].children.end =>
                  ashes.nodes[j].children.start >= ashes.root_children.end

\* C22 amended: ROOT, the greatest id, sorts after all ordinary parent ids. In the
\* snapshot frozen from a non-empty builder the array is ordered by the insertion-time
\* parent id, the nodes under ROOT are its last group: root_children is not empty and
\* ends at node_count, and every other non-empty children range ends at or before
\* root_children.start.
C22_RootGroupLast ==
    (Burnt /\ Len(ashes.nodes) >= 1) =>
        /\ \A x, y \in 0..(Len(ashes.nodes) - 1) :
              x < y => fire.nodes[OldIdx(x) + 1].parent <= fire.nodes[OldIdx(y) + 1].parent
        /\ ashes.root_children.start < ashes.root_children.end
        /\ ashes.root_children.end = Len(ashes.nodes)
        /\ \A j \in 1..Len(ashes.nodes) :
              ashes.nodes[j].children.start < ashes.nodes[j].children.end =>
                  ashes.nodes[j].children.end <= ashes.root_children.start

\* a frozen tree in which a node has children, so that the root's group is not alone
C22_Witness ==
    /\ Burnt /\ Len(ashes.nodes) >= 2
    /\ ashes.root_children.start >= 1
    /\ \E j \in 1..Len(ashes.nodes) : n_children(ashes, j - 1) >= 1

\* C23: the decoder fills the node array bottom-up. During a decode the array only
\* grows at its end: a step keeps every node already written with its payload and its
\* children range, and changes a parent only from UNINIT to the index of a node
\* written later. Every node of the array, at every point of the decode and in the
\* snapshot of a successful decode, has a children range that ends at or before its own
\* index; and after a successful decode the root's children are the last block,
\* root_children.end = node_count.
C23_BottomUp ==
    /\ [][ (pc \in {"map", "ret"}) =>
              LET old == storage.ashes.nodes
                  new == storage'.ashes.nodes
              IN /\ Len(new) >= Len(old)
                 /\ \A j \in 1..Len(old) :
                       /\ new[j].payload = old[j].payload
                       /\ new[j].children = old[j].children
                       /\ new[j].parent # old[j].parent =>
                             /\ old[j].parent = UNINIT
                             /\ new[j].parent >= Len(old) /\ new[j].parent < Len(new)
                             /\ (j - 1) \in RngSet(new[new[j].parent + 1].children) ]_vars
    /\ []((pc \in {"map", "ret"} \/ (pc = "done" /\ result = "ok")) =>
              \A j \in 1..Len(storage.ashes.nodes) :
                  /\ storage.ashes.nodes[j].children.start <= storage.ashes.nodes[j].children.end
                  /\ storage.ashes.nodes[j].children.end <= j - 1)
    /\ []((pc = "done" /\ result = "ok") =>
              /\ storage.ashes.root_children.end = Len(storage.ashes.nodes)
              /\ storage.ashes.root_children.start <= storage.ashes.root_children.end)

\* an input with a map inside a map inside the root map has been decoded
C23_Witness ==
    /\ pc = "done" /\ result = "ok" /\ src = "free"
    /\ Len(storage.ashes.nodes) >= 2
    /\ \E j \in 1..Len(storage.ashes.nodes) : n_children(storage.ashes, j - 1) >= 1

\* C24: in the snapshot a caller holds, from freeze or taken from a successful decode,
\* and in the snapshot a successful decode has left in the storage, parent pointers and
\* children ranges agree: node c has parent p exactly when c lies in the children range
\* of p, and parent ROOT exactly when c lies in root_children; no node has UNINIT as
\* its parent.
C24_ParentsAgree ==
    LET ParentsAgree(a) ==
            LET ids == 0..(Len(a.nodes) - 1)
            IN /\ \A c, p \in ids :
                     (a.nodes[c + 1].parent = p) <=> (c \in RngSet(a.nodes[p + 1].children))
               /\ \A c \in ids :
                     (a.nodes[c + 1].parent = ROOT) <=> (c \in RngSet(a.root_children))
               /\ \A c \in ids : a.nodes[c + 1].parent # UNINIT
               /\ \A c \in ids : a.nodes[c + 1].parent \in ids \cup {ROOT}
    IN /\ phase = "ashes" => ParentsAgree(ashes)
       /\ (pc = "done" /\ result = "ok") => ParentsAgree(storage.ashes)

\* the caller has taken a decoded snapshot in which a node lies under another node
C24_Witness ==
    /\ phase = "ashes" /\ last.op = "take"
    /\ Len(ashes.nodes) >= 2
    /\ \E j \in 1..Len(ashes.nodes) : ~is_root(ashes.nodes[j].parent)

\* C25: the old-to-new table of freeze inverts the sort. For the builder just frozen:
\* the old_idx values of the sorted array are the ids 0..node_count-1, each once; the
\* table sends the old_idx of the node at new position j to j; and in the snapshot a
\* node inserted under ROOT has parent ROOT and every other node has as parent the new
\* position of the node that had its insertion-time parent id.
C25_TableInvertsSort ==
    Burnt =>
        LET sorted == burn_sorted(fire)
            table == old2new_table(sorted)
            n == Len(fire.nodes)
        IN /\ Len(sorted) = n /\ Len(table) = n
           /\ {sorted[j].old_idx : j \in 1..n} = 0..(n - 1)
           /\ \A j \in 1..n : table[sorted[j].old_idx + 1] = j - 1
           /\ \A j \in 1..n : ashes.nodes[j].old_idx = sorted[j].old_idx
           /\ \A j \in 1..n :
                 LET was == fire.nodes[OldIdx(j - 1) + 1].parent
                 IN IF is_root(was)
                    THEN ashes.nodes[j].parent = ROOT
                    ELSE /\ ~is_root(ashes.nodes[j].parent)
                         /\ ashes.nodes[j].parent < n
                         /\ OldIdx(ashes.nodes[j].parent) = was

\* a frozen tree in which a node that has a child was moved by the sort
C25_Witness ==
    /\ Burnt
    /\ \E j \in 1..Len(ashes.nodes) :
          /\ ~is_root(ashes.nodes[j].parent)
          /\ OldIdx(ashes.nodes[j].parent) # ashes.nodes[j].parent

\* C26: the parent relation has no cycle. In the builder every node's parent is ROOT or
\* an id below the node's own; in a snapshot from freeze or from a successful decode,
\* following the parent pointers from any node reaches ROOT in at most node_count
\* steps.
C26_Acyclic ==
    LET RECURSIVE Climbs(_, _, _)
        Climbs(a, b, k) ==
            IF is_root(b) THEN TRUE
            ELSE IF k = 0 \/ b >= Len(a.nodes) THEN FALSE
            ELSE Climbs(a, a.nodes[b + 1].parent, k - 1)
        ReachesRoot(a) == \A b \in 0..(Len(a.nodes) - 1) : Climbs(a, b, Len(a.nodes))
    IN /\ \A i \in 0..(Len(fire.nodes) - 1) :
             is_root(fire.nodes[i + 1].parent) \/ fire.nodes[i + 1].parent < i
       /\ phase = "ashes" => ReachesRoot(ashes)
       /\ (pc = "done" /\ result = "ok") => ReachesRoot(storage.ashes)

\* a frozen tree with a node under a node under a node has been decoded back
C26_Witness ==
    /\ pc = "done" /\ result = "ok" /\ src = "replay"
    /\ \E j \in 1..Len(fire.nodes) :
          /\ ~is_root(fire.nodes[j].parent)
          /\ ~is_root(fire.nodes[fire.nodes[j].parent + 1].parent)
    /\ \E j \in 1..Len(storage.ashes.nodes) :
          /\ ~is_root(storage.ashes.nodes[j].parent)
          /\ ~is_root(storage.ashes.nodes[storage.ashes.nodes[j].parent + 1].parent)

-----------------------------------------------------------------------------
(* Claims about the pending-entry stack *)

\* C30 as claimed: the pending-entry stack is used as a stack. When the decode of a
\* child map has returned successfully, the slots from the length the stack had when
\* that map started are exactly the entries of that map's own children, all filled and
\* at the position of their child index, each with the payload of its map; a step of a
\* map's decode that does not fail leaves the slots below that map's start as they
\* were; the parent then turns exactly those slots into nodes and removes them; and
\* after a successful decode the stack is empty.
C30_StackDiscipline ==
    /\ [](pc = "ret" =>
             LET m == wire[Len(wire)].path
                 lo == Top.sub_start
                 own == ChildAt(wire, m)
             IN /\ Len(storage.entry_stack) - lo = Cardinality(own)
                /\ \A k \in (lo + 1)..Len(storage.entry_stack) :
                      is_some(storage.entry_stack[k])
                /\ \A j \in own :
                      /\ lo + Idx(wire[j]) < Len(storage.entry_stack)
                      /\ LET slot == storage.entry_stack[lo + Idx(wire[j]) + 1]
                         IN /\ is_some(slot)
                            /\ \A v \in VAt(wire, Append(m, j)) :
                                  unwrap(slot).payload = wire[v].p)
    /\ [][ ((pc \in {"map", "ret"}) /\ (pc' \in {"map", "ret"})) =>
              /\ Len(storage'.entry_stack) >= Top.start
              /\ SubSeq(storage'.entry_stack, 1, Top.start)
                    = SubSeq(storage.entry_stack, 1, Top.start) ]_vars
    /\ [][ ((pc = "ret") /\ (pc' = "map")) =>
              /\ Len(storage'.ashes.nodes) - Len(storage.ashes.nodes)
                    = Len(storage.entry_stack) - Top.sub_start
              /\ \A k \in 1..Top.sub_start :
                    k # Top.start + Top.i + 1 => storage'.entry_stack[k] = storage.entry_stack[k]
              /\ Len(storage'.entry_stack) >= Top.sub_start ]_vars
    /\ []((pc = "done" /\ result = "ok") => storage.entry_stack = <<>>)

-----------------------------------------------------------------------------
(* Claims about the span stacks and the span ids of the subscriber *)

C29_BiasByOne ==
    /\ \A b \in 0..UsizeMax :
          LET sp == br2sp(b)
          IN IF ~is_root(b) /\ b + 1 <= U64Max
             THEN /\ ~sp.panicked
                  /\ sp.ret = b + 1 /\ sp.ret # 0
                  /\ sp2br(sp.ret) = b
             ELSE sp.panicked
    /\ (tlast.op = "new_span" /\ ~tlast.panicked /\ tlast.thread \notin sub.blocked) =>
          /\ tlast.span = Len(fire.nodes)
          /\ sp2br(tlast.span) = Len(fire.nodes) - 1
          /\ fire.nodes[sp2br(tlast.span) + 1].payload = SpanPayload
    /\ \A t \in Threads : \A k \in DOMAIN sub.stack[t] :
          /\ exists(fire, sub.stack[t][k])
          /\ ~is_root(sub.stack[t][k])
          /\ br2sp(sub.stack[t][k]).ret \in IssuedSpans(fire)

\* a thread has entered the span of the last node the builder may hold
C29_Witness ==
    /\ Len(fire.nodes) = MaxNodes
    /\ \E t \in Threads :
          /\ tlast.op = "enter" /\ tlast.thread = t /\ tlast.span = MaxNodes
          /\ stack_last(sub.stack[t]) = MaxNodes - 1

\* C27 as claimed: with a provider that wants the span-enter (span-exit) callback,
\* every enter (exit) of an existing span returns: it does not panic, it leaves the
\* tree mutex free, and no thread waits for ever on the tree mutex.
C27_CallbacksReturn ==
    [][ (/\ current' # current
         /\ \/ tlast'.op = "enter" /\ sub.should_span_enter
            \/ tlast'.op = "exit" /\ sub.should_span_exit
         /\ exists(fire, sp2br(tlast'.span)))
          => /\ ~tlast'.panicked
             /\ sub'.inner = NoThread
             /\ sub'.blocked = {} ]_vars

\* C21: with the calls of new_span and event of several threads interleaved step by
\* step, a thread inside such a call holds the tree mutex from before it reads next_id
\* until it returns, and no two threads are inside at once; the id a call has read is
\* the place of the node it inserts, so no two calls get the same id; the parent of
\* that node is the top of the calling thread's own stack (ROOT when it is empty),
\* whatever the other threads' stacks are; and the call writes the payload of the node
\* it inserted and new_span returns the span id of that node.
C21_SingleHold ==
    /\ [](\A t \in Threads :
            sub.call[t].pc # "idle" =>
               /\ sub.inner = t
               /\ \A u \in Threads \ {t} : sub.call[u].pc = "idle")
    /\ [][ \A t \in Threads :
              LET c == sub.call[t]
              IN /\ (c.pc = "read" /\ sub'.call[t].pc = "inserted") =>
                       /\ c.id = Len(fire.nodes)
                       /\ Len(fire'.nodes) = Len(fire.nodes) + 1
                       /\ sub'.call[t].node = c.id
                       /\ fire'.nodes[c.id + 1].parent = stack_last(sub.stack[t])
                 /\ (c.pc = "inserted" /\ sub'.call[t].pc = "idle") =>
                       /\ c.id = c.node
                       /\ ~tlast'.panicked
                       /\ tlast'.ret = Some(c.node)
                       /\ c.op = "new_span" => tlast'.span = c.node + 1
                       /\ fire'.nodes[c.node + 1].payload
                            = (IF c.op = "new_span" THEN SpanPayload ELSE EventPayload)
                       /\ \A k \in 1..Len(fire.nodes) :
                             k # c.node + 1 => fire'.nodes[k] = fire.nodes[k] ]_vars

\* a call of one thread has returned the last node the builder may hold, made under
\* the span on top of that thread's stack, while the other thread is inside another
\* span
C21_Witness ==
    \E t \in Threads : \E u \in Threads \ {t} :
        /\ tlast.op = "new_span" /\ tlast.thread = t /\ tlast.span = MaxNodes
        /\ sub.stack[t] # <<>> /\ sub.stack[u] # <<>>
        /\ stack_last(sub.stack[t]) # stack_last(sub.stack[u])
        /\ fire.nodes[MaxNodes].parent = stack_last(sub.stack[t])

====
